---- MODULE Spec2Model ----
(***************************************************************************)
(* Verification model of the WinWise ensemble prediction and betting-value *)
(* engine (backend/app).  The subsystems are modelled each with its own    *)
(* specification over the shared variables:                                *)
(*   SpecValue   MatchPredictionModel.evaluate_prediction_quality as       *)
(*               called by MatchService.update_odds                        *)
(*   SpecSettle  SoccerService.settle_prediction, Prediction.settle_       *)
(*               prediction and MatchService.update_match_status           *)
(*   SpecAgg     AIPredictionService._validate_and_format_prediction and   *)
(*               _advanced_ensemble                                        *)
(*   SpecMarkets AIPredictionService._get_additional_predictions and the   *)
(*               market producers it calls                                 *)
(*   SpecCycle   AIPredictionService.get_comprehensive_prediction with     *)
(*               get_gpt4_prediction and get_deepseek_prediction           *)
(*   SpecSchema  schemas/prediction.py AsianHandicapOutcome                *)
(*   SpecRerun   AIPredictionService._advanced_ensemble run repeatedly on  *)
(*               one forecast list, in one interpreter or after a restart  *)
(*   SpecForm    AIPredictionService._calculate_form_strength              *)
(*   SpecFrame   aggregator and derived-market runs on one input           *)
(*   SpecPredict SportServiceFactory.get_service and                       *)
(*               SoccerService.get_match_prediction                        *)
(*   SpecStore   api/v1/predictions.py create_prediction, update_prediction*)
(*   SpecLoop    services/background_tasks.py, the three refresh loops;    *)
(*               FairSpecLoop adds the scheduling of the event loop        *)
(*                                                                         *)
(* Python floats are modelled as exact rationals <<n, d>> in lowest terms  *)
(* with d > 0, so "sums to 1" means exactly 1 (the code's floating-point   *)
(* error of a few ulp is not modelled).                                    *)
(***************************************************************************)
EXTENDS Integers, Sequences, FiniteSets, TLC

VARIABLES
    val_pc,           \* update_odds: "ready" before the call, "done" after it
    val_prediction,   \* update_odds: the statistical prediction dict
    val_odds,         \* update_odds: odds_data['odds'] fetched from the odds API
    value_analysis,   \* update_odds: result of evaluate_prediction_quality
    match_odds_data,  \* Match.odds_data as committed by update_odds
    match,            \* the Match row: status and score_data
    prediction_row,   \* the stored Prediction row
    settlement,       \* the dict last returned by SoccerService.settle_prediction
    svc_calls,        \* SoccerService.settle_prediction calls since the match last changed
    svc_first,        \* the dict returned by the first of those calls
    row_calls,        \* Prediction.settle_prediction calls on the row
    row_first,        \* status, profit_loss, points_earned of the row after the first call
    agg_pc,           \* aggregation run: the provider awaited, then aggregation, then done
    base_weights,     \* settings.AI_ENSEMBLE_WEIGHTS
    validation,       \* the last _validate_and_format_prediction call: raw input and result
    predictions,      \* the list of (model, validated forecast) pairs
    ensemble,         \* what _advanced_ensemble returned for that list
    agg_weights,      \* _advanced_ensemble: what _calculate_dynamic_weights returned
    match_data,       \* the match_data dict handed to the prediction service
    base_prediction,  \* the ensemble forecast the derived markets are built from
    market_call,      \* the market producer that was called, "" before the call
    market_result,    \* what that call returned, or the exception it raised
    cycle_pc,         \* get_comprehensive_prediction: provider awaited, combine, done
    settings,         \* which provider API keys are configured
    collected,        \* get_comprehensive_prediction: its local list predictions
    provider_log,     \* the errors the provider calls caught and logged
    called,           \* the provider calls the cycle has made, in order, each with
                      \* whether the provider's answer is a forecast that validates
    comprehensive,    \* what get_comprehensive_prediction gave its caller
    handicap_input,   \* the fields given to AsianHandicapOutcome(...)
    handicap_result,  \* the record that construction gave, or its validation errors
    hash_order,       \* order in which this interpreter's sets iterate the strings
    rerun_input,      \* the forecast list and base weights aggregated repeatedly
    rerun_results,    \* the aggregated forecasts of the runs so far
    form_input,       \* the recent-form string given to _calculate_form_strength
    form_result,      \* what that call returned, or the exception it raised
    predict_input,    \* settings, statistical prediction and outcome of the AI call
    predict_result,   \* what the request for a match prediction gave its caller
    store,            \* the rows of the predictions table
    now,              \* datetime.utcnow()
    api_response,     \* the last answer of the predictions API
    refresh           \* per background refresh loop: its position and its cycle

valueVars == <<val_pc, val_prediction, val_odds, value_analysis, match_odds_data>>
settleVars == <<match, prediction_row, settlement, svc_calls, svc_first, row_calls, row_first>>
aggVars == <<agg_pc, base_weights, validation, predictions, ensemble, agg_weights>>
marketVars == <<match_data, base_prediction, market_call, market_result>>
cycleVars == <<cycle_pc, settings, collected, provider_log, called, comprehensive>>
schemaVars == <<handicap_input, handicap_result>>
rerunVars == <<hash_order, rerun_input, rerun_results>>
formVars == <<form_input, form_result>>
predictVars == <<predict_input, predict_result>>
storeVars == <<store, now, api_response>>
loopVars == <<refresh>>
furtherVars == <<formVars, predictVars, storeVars, loopVars>>
coreVars == <<valueVars, settleVars, aggVars, marketVars, cycleVars, schemaVars, rerunVars>>
vars == <<coreVars, furtherVars>>

(***************************************************************************)
(* Exact rational arithmetic                                               *)
(***************************************************************************)
Abs(x) == IF x < 0 THEN -x ELSE x

RECURSIVE GCD(_, _)
GCD(a, b) == IF b = 0 THEN a ELSE GCD(b, a % b)

Rat(n, d) ==
    LET s == IF d < 0 THEN -1 ELSE 1
        g == GCD(Abs(n), Abs(d))
    IN  <<(s * n) \div g, (s * d) \div g>>

Zero == <<0, 1>>
One == <<1, 1>>
RInt(k) == <<k, 1>>
RAdd(a, b) == Rat(a[1] * b[2] + b[1] * a[2], a[2] * b[2])
RSub(a, b) == Rat(a[1] * b[2] - b[1] * a[2], a[2] * b[2])
RMul(a, b) == Rat(a[1] * b[1], a[2] * b[2])
RDiv(a, b) == Rat(a[1] * b[2], a[2] * b[1])
RLt(a, b) == a[1] * b[2] < b[1] * a[2]
RLeq(a, b) == a[1] * b[2] <= b[1] * a[2]
RMin(a, b) == IF RLt(b, a) THEN b ELSE a
RMax(a, b) == IF RLt(a, b) THEN b ELSE a
RAbs(a) == <<Abs(a[1]), a[2]>>

(***************************************************************************)
(* Values the variables of a subsystem hold while another one is checked   *)
(***************************************************************************)
IdleSettle ==
    /\ match = [status |-> "scheduled", score_data |-> <<>>]
    /\ prediction_row = <<>>
    /\ settlement = <<>>
    /\ svc_calls = 0
    /\ svc_first = <<>>
    /\ row_calls = 0
    /\ row_first = <<>>

IdleAgg ==
    /\ agg_pc = 0
    /\ base_weights = <<>>
    /\ validation = <<>>
    /\ predictions = <<>>
    /\ ensemble = <<>>
    /\ agg_weights = <<>>

IdleMarkets ==
    /\ match_data = <<>>
    /\ base_prediction = <<>>
    /\ market_call = ""
    /\ market_result = <<>>

IdleSchema ==
    /\ handicap_input = <<>>
    /\ handicap_result = <<>>

IdleRerun ==
    /\ hash_order = <<>>
    /\ rerun_input = <<>>
    /\ rerun_results = <<>>

IdleForm ==
    /\ form_input = <<>>
    /\ form_result = <<>>

IdlePredict ==
    /\ predict_input = <<>>
    /\ predict_result = <<>>

IdleStore ==
    /\ store = {}
    /\ now = 0
    /\ api_response = <<>>

IdleLoop == refresh = <<>>

IdleFurther == IdleForm /\ IdlePredict /\ IdleStore /\ IdleLoop

IdleCycle ==
    /\ cycle_pc = 0
    /\ settings = <<>>
    /\ collected = <<>>
    /\ provider_log = <<>>
    /\ called = <<>>
    /\ comprehensive = <<>>

(***************************************************************************)
(* Value/edge analyzer: ml/model.py evaluate_prediction_quality            *)
(***************************************************************************)
ProbSteps == 4        \* model probabilities range over k/ProbSteps
MaxOddsHalves == 5    \* decimal odds range over k/2, k in 0..MaxOddsHalves

OUTCOME_KEYS == <<"HOME_WIN", "DRAW", "AWAY_WIN">>
OutcomeKeys == {OUTCOME_KEYS[i] : i \in 1..3}

\* A key that the odds dict does not hold (d = 0 is no rational).
Absent == <<0, 0>>

Probabilities == {Rat(k, ProbSteps) : k \in 0..ProbSteps}
OddsValues == {Rat(k, 2) : k \in 0..MaxOddsHalves} \cup {Absent}

\* predict(): the probability triple and confidence = max(probabilities).
PredictionDict(ph, pd, pa) ==
    [HOME_WIN |-> ph, DRAW |-> pd, AWAY_WIN |-> pa,
     confidence |-> RMax(ph, RMax(pd, pa))]

TenPercent == Rat(1, 10)

\* max(0, min(kelly_fraction, 0.1))
KellyNoCap(k) == RMax(Zero, k)
KellyCap(k) == RMax(Zero, RMin(k, TenPercent))

PresentKeys(odds) == {k \in OutcomeKeys : odds[k] # Absent}

RECURSIVE SumImplied(_, _)
SumImplied(odds, keys) ==
    IF keys = {} THEN Zero
    ELSE LET k == CHOOSE x \in keys : TRUE
         IN  RAdd(RDiv(One, odds[k]), SumImplied(odds, keys \ {k}))

\* sum(1/odd for odd in odds.values())
TotalImpliedProb(odds) == SumImplied(odds, PresentKeys(odds))

\* (1/v)/total_implied_prob
MarketProbabilityWithMargin(odds, k) == RDiv(One, odds[k])
MarketProbability(odds, k) == RDiv(RDiv(One, odds[k]), TotalImpliedProb(odds))

\* prediction[f"{k.lower()}_probability"] - market_probabilities[k]
Edge(prediction, odds, k) == RSub(prediction[k], MarketProbability(odds, k))

\* max(edges.items(), key=lambda x: x[1]): the first maximal key in dict order
MaxEdgeOutcome(prediction, odds) ==
    LET best == CHOOSE i \in 1..3 :
            /\ \A j \in 1..3 : RLeq(Edge(prediction, odds, OUTCOME_KEYS[j]),
                                      Edge(prediction, odds, OUTCOME_KEYS[i]))
            /\ \A j \in 1..(i - 1) : RLt(Edge(prediction, odds, OUTCOME_KEYS[j]),
                                          Edge(prediction, odds, OUTCOME_KEYS[i]))
    IN  OUTCOME_KEYS[best]

Raised(err) ==
    [raised |-> TRUE, error |-> err, best_bet |-> "", edge |-> Zero,
     kelly_fraction |-> Zero, value_rating |-> Zero, market_efficiency |-> Zero]

NoAnalysis == Raised("not evaluated")

evaluate_prediction_quality(prediction, odds) ==
    IF \E k \in PresentKeys(odds) : odds[k] = Zero
    THEN Raised("ZeroDivisionError")          \* 1/odd with odd = 0
    ELSE IF PresentKeys(odds) # OutcomeKeys
    THEN Raised("KeyError")                   \* market_probabilities[k]
    ELSE
      LET total == TotalImpliedProb(odds)
          best  == MaxEdgeOutcome(prediction, odds)
          edge  == Edge(prediction, odds, best)
      IN  IF RLt(Zero, edge) /\ odds[best] = One
          THEN Raised("ZeroDivisionError")    \* / (odds[best] - 1)
          ELSE
            LET kelly == IF RLt(Zero, edge)
                         THEN RDiv(RSub(RMul(odds[best], prediction[best]), One),
                                   RSub(odds[best], One))
                         ELSE Zero
            IN  [raised |-> FALSE, error |-> "", best_bet |-> best, edge |-> edge,
                 kelly_fraction |-> KellyCap(kelly),
                 value_rating |-> RMul(edge, prediction.confidence),
                 market_efficiency |-> RSub(One, RAbs(RSub(One, total)))]

NoOdds == [k \in OutcomeKeys |-> Absent]

InitValue ==
    /\ val_pc = "ready"
    /\ \E ph, pd, pa \in Probabilities : val_prediction = PredictionDict(ph, pd, pa)
    /\ val_odds \in [OutcomeKeys -> OddsValues]
    /\ value_analysis = NoAnalysis
    /\ match_odds_data = NoOdds
    /\ IdleSettle
    /\ IdleSchema
    /\ IdleRerun
    /\ IdleFurther
    /\ IdleAgg
    /\ IdleMarkets
    /\ IdleCycle

\* MatchService.update_odds: evaluate, then commit the odds; an exception of
\* evaluate_prediction_quality is re-raised before match.odds_data is assigned.
update_odds ==
    /\ val_pc = "ready"
    /\ val_pc' = "done"
    /\ value_analysis' = evaluate_prediction_quality(val_prediction, val_odds)
    /\ match_odds_data' = IF value_analysis'.raised THEN match_odds_data ELSE val_odds
    /\ UNCHANGED <<val_prediction, val_odds>>
    /\ UNCHANGED <<settleVars, aggVars, marketVars, cycleVars, schemaVars, rerunVars, furtherVars>>

NextValue == update_odds

SpecValue == InitValue /\ [][NextValue]_vars

AllOddsAboveOne == \A k \in OutcomeKeys : val_odds[k] # Absent /\ RLt(One, val_odds[k])

\* C3: for odds > 1 on all three outcomes and any probability triple in [0,1],
\* evaluate_prediction_quality returns (does not raise) with kelly_fraction in
\* [0, 0.10], and the fraction is 0 whenever the best-bet edge is not positive.
C3_KellyInRange ==
    (val_pc = "done" /\ AllOddsAboveOne) =>
        /\ ~value_analysis.raised
        /\ RLeq(Zero, value_analysis.kelly_fraction)
        /\ RLeq(value_analysis.kelly_fraction, TenPercent)
        /\ (RLeq(value_analysis.edge, Zero) => value_analysis.kelly_fraction = Zero)

\* A positive edge whose raw Kelly value (0.75 * 2.5 - 1) / 1.5 exceeds the cap.
C3_Witness ==
    /\ val_pc = "done"
    /\ AllOddsAboveOne
    /\ ~value_analysis.raised
    /\ RLt(Zero, value_analysis.edge)
    /\ value_analysis.kelly_fraction = TenPercent
    /\ RLt(TenPercent,
           RDiv(RSub(RMul(val_odds[value_analysis.best_bet],
                          val_prediction[value_analysis.best_bet]), One),
                RSub(val_odds[value_analysis.best_bet], One)))

\* The outcome the analyzer would bet on has odds <= 1.0 (all three odds given
\* and non-zero, so that the edges are defined).
BestBetOddsAtMostOne ==
    /\ \A k \in OutcomeKeys : val_odds[k] # Absent /\ val_odds[k] # Zero
    /\ RLeq(val_odds[MaxEdgeOutcome(val_prediction, val_odds)], One)

\* C7: when the odds of the best-bet outcome are <= 1.0 the analyzer returns
\* a ValueAssessment with kelly_fraction 0 and does not raise.
C7_DegenerateBestBetOdds ==
    (val_pc = "done" /\ BestBetOddsAtMostOne) =>
        (~value_analysis.raised /\ value_analysis.kelly_fraction = Zero)

\* C8: when the odds snapshot misses an outcome or holds a zero odds value the
\* analyzer returns zero edge and zero Kelly fraction instead of raising.
C8_DegradesToZero ==
    (val_pc = "done" /\ \E k \in OutcomeKeys : val_odds[k] = Absent \/ val_odds[k] = Zero) =>
        /\ ~value_analysis.raised
        /\ value_analysis.edge = Zero
        /\ value_analysis.kelly_fraction = Zero

(***************************************************************************)
(* Settlement: services/soccer_service.py, models/prediction.py,           *)
(* models/match.py, and the match life cycle of services/match_service.py  *)
(* and services/background_tasks.py                                        *)
(***************************************************************************)
MaxSettleGoals == 1   \* goals of a side in stored and actual scores: 0..MaxSettleGoals
MaxSettleCalls == 2   \* settlement calls of each kind that are followed
MaxStake == 1         \* stake_amount ranges over 0..MaxStake units of StakeUnit

IdleValue ==
    /\ val_pc = "done"
    /\ val_prediction = <<>>
    /\ val_odds = NoOdds
    /\ value_analysis = NoAnalysis
    /\ match_odds_data = NoOdds

\* class MatchStatus
MatchStatus ==
    {"scheduled", "in_progress", "completed", "cancelled", "postponed", "suspended"}

\* class PredictionStatus
PredictionStatus == {"pending", "correct", "incorrect", "void", "partially_correct"}

Outcomes == {"home_win", "draw", "away_win"}

\* Stored and actual scores: the small ones and an 11-0.
SettleScores ==
    [home : 0..MaxSettleGoals, away : 0..MaxSettleGoals] \cup {[home |-> 11, away |-> 0]}

\* Match.score_data is a nullable JSON column.
NoScore == [home |-> -1, away |-> -1]

\* Match.is_finished
is_finished_started(m) == m.status # "scheduled"
is_finished(m) == m.status = "completed"

\* SoccerService._get_match_outcome
_get_match_outcome_no_draw(score_data) ==
    IF score_data.home >= score_data.away THEN "home_win" ELSE "away_win"
_get_match_outcome(score_data) ==
    IF score_data.home > score_data.away THEN "home_win"
    ELSE IF score_data.home < score_data.away THEN "away_win"
    ELSE "draw"

\* max_diff = 5 in both accuracy functions
MaxDiff == 5

\* SoccerService._calculate_score_accuracy
_calculate_score_accuracy(predicted_score, actual_score) ==
    RSub(One, Rat(Abs(predicted_score.home - actual_score.home)
                    + Abs(predicted_score.away - actual_score.away), 2 * MaxDiff))

\* SoccerService._calculate_goal_difference_accuracy
_calculate_goal_difference_accuracy(predicted_score, actual_score) ==
    RSub(One, Rat(Abs((predicted_score.home - predicted_score.away)
                        - (actual_score.home - actual_score.away)), 2 * MaxDiff))

\* The dict a settlement returns; performance_metrics {} is has_metrics = FALSE.
SettlementDict(raised, status, profit_loss, points_earned, has_metrics, sa, gda) ==
    [raised |-> raised, status |-> status, profit_loss |-> profit_loss,
     points_earned |-> points_earned, has_metrics |-> has_metrics,
     score_accuracy |-> sa, goal_difference_accuracy |-> gda]

PendingSettlement == SettlementDict(FALSE, "pending", 0, 0, FALSE, Zero, Zero)

\* The call raised (TypeError: score_data is None); nothing is returned.
SettlementRaised == SettlementDict(TRUE, "", 0, 0, FALSE, Zero, Zero)

\* Points for a correct call
CorrectPoints == 10

\* SoccerService.settle_prediction
settle_prediction(pred, m) ==
    IF ~is_finished(m) THEN PendingSettlement
    ELSE IF m.score_data = NoScore THEN SettlementRaised
    ELSE
      LET correct == pred.outcome = _get_match_outcome(m.score_data)
      IN  SettlementDict(FALSE,
            IF correct THEN "correct" ELSE "incorrect",
            IF correct THEN pred.potential_return - pred.stake_amount
                       ELSE -pred.stake_amount,
            IF correct THEN CorrectPoints ELSE 0,
            TRUE,
            _calculate_score_accuracy(pred.score_prediction, m.score_data),
            _calculate_goal_difference_accuracy(pred.score_prediction, m.score_data))

\* Prediction._get_sport_settlement_logic
_get_sport_settlement_logic_accumulating(self, actual_result) ==
    [status |-> "pending", profit_loss |-> self.profit_loss - self.stake_amount,
     points_earned |-> 0]
_get_sport_settlement_logic(self, actual_result) ==
    [status |-> "pending", profit_loss |-> 0, points_earned |-> 0]

StakeUnit == 10
ReturnFactor == 3

\* A row as create_prediction leaves it: prediction_data as validate_prediction
\* accepts it, the stake and the return, and the column defaults (pending, 0, 0).
NewPredictions ==
    {[outcome |-> o, score_prediction |-> sp, stake_amount |-> StakeUnit * k,
      potential_return |-> ReturnFactor * StakeUnit * k,
      status |-> "pending", profit_loss |-> 0, points_earned |-> 0,
      settlement_time_set |-> FALSE] :
        o \in Outcomes, sp \in SettleScores, k \in 0..MaxStake}

\* The row after the calling layer has persisted a settlement dict.
Persisted(row, d) ==
    [row EXCEPT !.status = d.status, !.profit_loss = d.profit_loss,
                !.points_earned = d.points_earned, !.settlement_time_set = TRUE]

RowOutcome(row) == <<row.status, row.profit_loss, row.points_earned>>

\* Either a new prediction on a scheduled match, or a prediction on a completed
\* match whose settlement by SoccerService.settle_prediction is already stored.
InitSettle ==
    /\ IdleValue
    /\ IdleSchema
    /\ IdleRerun
    /\ IdleFurther
    /\ IdleAgg
    /\ IdleMarkets
    /\ IdleCycle
    /\ \E row \in NewPredictions :
         \/ /\ match \in [status : {"scheduled"}, score_data : SettleScores \cup {NoScore}]
            /\ prediction_row = row
         \/ /\ match \in [status : {"completed"}, score_data : SettleScores]
            /\ prediction_row = Persisted(row, settle_prediction(row, match))
    /\ settlement = PendingSettlement
    /\ svc_calls = 0
    /\ svc_first = PendingSettlement
    /\ row_calls = 0
    /\ row_first = RowOutcome(prediction_row)

\* BackgroundTaskService.update_upcoming_matches: the start time has passed.
start_match ==
    /\ match.status = "scheduled"
    /\ match' = [match EXCEPT !.status = "in_progress"]
    /\ svc_calls' = 0
    /\ UNCHANGED <<prediction_row, settlement, svc_first, row_calls, row_first>>
    /\ UNCHANGED <<valueVars, aggVars, marketVars, cycleVars, schemaVars, rerunVars, furtherVars>>

\* MatchService.update_match_status, which the refresh loops call for scheduled
\* and in-progress matches: match.status = MatchStatus(live_data['status']).
update_match_status ==
    /\ match.status \in {"scheduled", "in_progress"}
    /\ \E live \in MatchStatus : match' = [match EXCEPT !.status = live]
    /\ svc_calls' = 0
    /\ UNCHANGED <<prediction_row, settlement, svc_first, row_calls, row_first>>
    /\ UNCHANGED <<valueVars, aggVars, marketVars, cycleVars, schemaVars, rerunVars, furtherVars>>

\* A call of SoccerService.settle_prediction(prediction, match).
service_settle ==
    /\ svc_calls < MaxSettleCalls
    /\ settlement' = settle_prediction(prediction_row, match)
    /\ svc_calls' = svc_calls + 1
    /\ svc_first' = IF svc_calls = 0 THEN settlement' ELSE svc_first
    /\ UNCHANGED <<match, prediction_row, row_calls, row_first>>
    /\ UNCHANGED <<valueVars, aggVars, marketVars, cycleVars, schemaVars, rerunVars, furtherVars>>

\* A call of Prediction.settle_prediction(actual_result) with the match's score.
\* It raises ValueError, changing nothing, when actual_result is empty.
row_settle ==
    /\ row_calls < MaxSettleCalls
    /\ match.score_data # NoScore
    /\ LET r == _get_sport_settlement_logic(prediction_row, match.score_data)
       IN  prediction_row' = [prediction_row EXCEPT !.status = r.status,
                                            !.profit_loss = r.profit_loss,
                                            !.points_earned = r.points_earned,
                                            !.settlement_time_set = TRUE]
    /\ row_calls' = row_calls + 1
    /\ row_first' = IF row_calls = 0 THEN RowOutcome(prediction_row') ELSE row_first
    /\ UNCHANGED <<match, settlement, svc_calls, svc_first>>
    /\ UNCHANGED <<valueVars, aggVars, marketVars, cycleVars, schemaVars, rerunVars, furtherVars>>

NextSettle == start_match \/ update_match_status \/ service_settle \/ row_settle

SpecSettle == InitSettle /\ [][NextSettle]_vars

SettlementOutcome(d) == <<d.raised, d.status, d.profit_loss, d.points_earned>>

\* C4: settling the same stored prediction against the same match result again
\* yields the status, profit_loss and points_earned of the first settlement,
\* for the service's returned dict and for the row Prediction.settle_prediction
\* writes.
C4_SettlementIdempotent ==
    /\ svc_calls >= 1 => SettlementOutcome(settlement) = SettlementOutcome(svc_first)
    /\ row_calls >= 1 => RowOutcome(prediction_row) = row_first

\* A staked prediction settled twice each way against a completed match it
\* called correctly.
C4_Witness ==
    /\ match.status = "completed"
    /\ svc_calls >= 2
    /\ row_calls >= 2
    /\ prediction_row.stake_amount > 0
    /\ settlement.status = "correct"
    /\ settlement.profit_loss = prediction_row.potential_return - prediction_row.stake_amount

\* C5: once the prediction's status has left pending, no settlement call
\* changes its status, profit_loss or points_earned.
C5_SettledImmutable ==
    [][prediction_row.status # "pending" => RowOutcome(prediction_row') = RowOutcome(prediction_row)]_vars

\* C6: for a match that is not completed SoccerService.settle_prediction
\* yields pending with profit_loss 0 and points_earned 0.
C6_PendingUnlessCompleted ==
    (svc_calls >= 1 /\ match.status # "completed") =>
        /\ ~settlement.raised
        /\ settlement.status = "pending"
        /\ settlement.profit_loss = 0
        /\ settlement.points_earned = 0

\* A match in progress whose current score the staked prediction calls right.
C6_Witness ==
    /\ svc_calls >= 1
    /\ match.status = "in_progress"
    /\ match.score_data # NoScore
    /\ prediction_row.outcome = _get_match_outcome(match.score_data)
    /\ prediction_row.stake_amount > 0
    /\ settlement = PendingSettlement

(***************************************************************************)
(* Forecast validator and ensemble aggregator:                             *)
(* services/ai_prediction_service.py                                       *)
(***************************************************************************)
MaxGoals == 2         \* a provider's predicted goals of a side: 0..MaxGoals

\* The providers, in the order get_comprehensive_prediction appends them.
Models == <<"gpt4", "deepseek">>
ModelNames == {Models[i] : i \in 1..Len(Models)}

\* settings.AI_ENSEMBLE_WEIGHTS as configured, and the equal weights of the
\* specification's worked example.
ConfiguredWeights == [gpt4 |-> Rat(6, 10), deepseek |-> Rat(4, 10)]
EqualWeights == [gpt4 |-> Rat(1, 2), deepseek |-> Rat(1, 2)]

\* Outcome tokens a provider's JSON may hold: the three valid ones and another.
OutcomeTokens == Outcomes \cup {"HOME"}

\* Confidence values a provider's JSON may hold, two of them outside [0, 1].
Confidences == {Rat(-1, 10), Rat(3, 10), Rat(6, 10), Rat(8, 10), Rat(11, 10)}

ProviderScores == [home : 0..MaxGoals, away : 0..MaxGoals]

REQUIRED_FIELDS == {"predicted_outcome", "score_prediction", "confidence", "reasoning"}

\* The reasoning list a provider gives.
ReasoningOf == [gpt4 |-> {"form", "rating"}, deepseek |-> {"form", "head_to_head"}]

\* The parsed JSON of a provider: the fields it holds and their values.
RawForecasts ==
    {[fields |-> REQUIRED_FIELDS, predicted_outcome |-> o, score_prediction |-> sc,
      confidence |-> c] : o \in OutcomeTokens, sc \in ProviderScores, c \in Confidences}
    \cup
    {[fields |-> REQUIRED_FIELDS \ {f}, predicted_outcome |-> "home_win",
      score_prediction |-> [home |-> 1, away |-> 0], confidence |-> Rat(8, 10)] :
        f \in REQUIRED_FIELDS}

Rejected(why) ==
    [accepted |-> FALSE, error |-> why, predicted_outcome |-> "",
     score_prediction |-> [home |-> 0, away |-> 0], confidence |-> Zero]

\* AIPredictionService._validate_and_format_prediction
_validate_and_format_prediction(raw) ==
    IF ~(REQUIRED_FIELDS \subseteq raw.fields)
    THEN Rejected("Missing required fields in prediction")
    ELSE IF RLt(raw.confidence, Zero) \/ RLt(One, raw.confidence)
    THEN Rejected("Confidence score must be between 0 and 1")
    ELSE [accepted |-> TRUE, error |-> "", predicted_outcome |-> raw.predicted_outcome,
          score_prediction |-> raw.score_prediction, confidence |-> raw.confidence]

RECURSIVE RSum(_)
RSum(seq) == IF seq = <<>> THEN Zero ELSE RAdd(Head(seq), RSum(Tail(seq)))

\* Python round(x): to the nearest integer, a tie to the even one.
Round(x) ==
    LET f == x[1] \div x[2]
        r == x[1] - f * x[2]
    IN  IF 2 * r < x[2] THEN f
        ELSE IF 2 * r > x[2] THEN f + 1
        ELSE IF f % 2 = 0 THEN f ELSE f + 1

\* Python round(x, 2)
Round2(x) == Rat(Round(RMul(x, RInt(100))), 100)

\* numpy.mean and numpy.var (population variance) of a list of rationals
Mean(seq) == RDiv(RSum(seq), RInt(Len(seq)))
Var(seq) ==
    LET mu == Mean(seq)
    IN  Mean([i \in 1..Len(seq) |-> RMul(RSub(seq[i], mu), RSub(seq[i], mu))])

\* min(max(pred["confidence"], 0.5), 1.0)
ConfidenceFactor_no_floor(c) == RMin(c, One)
ConfidenceFactor(c) == RMin(RMax(c, Rat(1, 2)), One)

RECURSIVE AdjustWeights(_, _)
AdjustWeights(preds, weights) ==
    IF preds = <<>> THEN weights
    ELSE AdjustWeights(Tail(preds),
            [weights EXCEPT ![Head(preds).model] =
                RMul(@, ConfidenceFactor(Head(preds).pred.confidence))])

\* AIPredictionService._calculate_dynamic_weights: the copy of the base weights
\* holds every configured provider, also those that did not respond.
_calculate_dynamic_weights_unnormalised(preds, bw) == AdjustWeights(preds, bw)
_calculate_dynamic_weights(preds, bw) ==
    LET weights == AdjustWeights(preds, bw)
        total_weight == RSum([i \in 1..Len(Models) |-> weights[Models[i]]])
    IN  [k \in DOMAIN weights |-> RDiv(weights[k], total_weight)]

\* AIPredictionService._calculate_consistency
_calculate_consistency_of_scores(preds) ==
    IF Len(preds) < 2 THEN One
    ELSE
      LET home_scores == [i \in 1..Len(preds) |-> RInt(preds[i].pred.score_prediction.home)]
          away_scores == [i \in 1..Len(preds) |-> RInt(preds[i].pred.score_prediction.away)]
          score_variance == RDiv(RAdd(Var(home_scores), Var(away_scores)), RInt(2))
      IN  Round2(RDiv(One, RAdd(One, score_variance)))
_calculate_consistency_unrounded(preds) ==
    IF Len(preds) < 2 THEN One
    ELSE
      LET home_scores == [i \in 1..Len(preds) |-> RInt(preds[i].pred.score_prediction.home)]
          away_scores == [i \in 1..Len(preds) |-> RInt(preds[i].pred.score_prediction.away)]
          score_variance == RDiv(RAdd(Var(home_scores), Var(away_scores)), RInt(2))
          unique_outcomes ==
              Cardinality({preds[i].pred.predicted_outcome : i \in 1..Len(preds)})
      IN  RMul(RDiv(One, RAdd(One, score_variance)), Rat(1, unique_outcomes))
_calculate_consistency(preds) ==
    IF Len(preds) < 2 THEN One
    ELSE
      LET home_scores == [i \in 1..Len(preds) |-> RInt(preds[i].pred.score_prediction.home)]
          away_scores == [i \in 1..Len(preds) |-> RInt(preds[i].pred.score_prediction.away)]
          score_variance == RDiv(RAdd(Var(home_scores), Var(away_scores)), RInt(2))
          unique_outcomes ==
              Cardinality({preds[i].pred.predicted_outcome : i \in 1..Len(preds)})
      IN  Round2(RMul(RDiv(One, RAdd(One, score_variance)), Rat(1, unique_outcomes)))

\* AIPredictionService._assess_risk
_assess_risk(preds, consistency) ==
    LET avg_confidence == Mean([i \in 1..Len(preds) |-> preds[i].pred.confidence])
    IN  IF RLt(Rat(8, 10), consistency) /\ RLt(Rat(75, 100), avg_confidence) THEN "low"
        ELSE IF RLt(consistency, Rat(1, 2)) \/ RLt(avg_confidence, Rat(1, 2)) THEN "high"
        ELSE "medium"

\* AIPredictionService._estimate_uncertainty; confidence_std is the square root
\* of confidence_var.
_estimate_uncertainty(preds) ==
    [confidence_var |-> Var([i \in 1..Len(preds) |-> preds[i].pred.confidence]),
     score_variance |->
        [home |-> Var([i \in 1..Len(preds) |-> RInt(preds[i].pred.score_prediction.home)]),
         away |-> Var([i \in 1..Len(preds) |-> RInt(preds[i].pred.score_prediction.away)])],
     prediction_spread |->
        Cardinality({preds[i].pred.predicted_outcome : i \in 1..Len(preds)})]

OUTCOME_ORDER == <<"home_win", "draw", "away_win">>

\* max(outcome_probabilities.items(), key=lambda x: x[1])[0]: the first
\* outcome of the dict order that has the largest mass.
ArgMaxOutcome(mass) ==
    LET best == CHOOSE i \in 1..3 :
            /\ \A j \in 1..3 : RLeq(mass[OUTCOME_ORDER[j]], mass[OUTCOME_ORDER[i]])
            /\ \A j \in 1..(i - 1) : RLt(mass[OUTCOME_ORDER[j]], mass[OUTCOME_ORDER[i]])
    IN  OUTCOME_ORDER[best]

NoUncertainty ==
    [confidence_var |-> Zero, score_variance |-> [home |-> Zero, away |-> Zero],
     prediction_spread |-> 0]

\* What a run yields when nothing was aggregated (None), or when the
\* aggregation raised.
NoEnsemble(raised, err) ==
    [available |-> FALSE, raised |-> raised, error |-> err, predicted_outcome |-> "",
     score_prediction |-> [home |-> 0, away |-> 0], confidence |-> Zero,
     reasoning |-> {}, key_factors |-> {}, risk_assessment |-> "",
     model_agreement |-> FALSE, consistency_score |-> Zero,
     outcome_probabilities |-> [o \in Outcomes |-> Zero], uncertainty |-> NoUncertainty]

\* AIPredictionService._weighted_aggregate
_weighted_aggregate(preds, weights) ==
    IF \E i \in 1..Len(preds) : preds[i].pred.predicted_outcome \notin Outcomes
    THEN NoEnsemble(TRUE, "KeyError")      \* outcome_probabilities[...] += weight
    ELSE
      LET n == Len(preds)
          w(i) == weights[preds[i].model]
          outcome_probabilities ==
              [o \in Outcomes |->
                  RSum([i \in 1..n |->
                      IF preds[i].pred.predicted_outcome = o THEN w(i) ELSE Zero])]
          prediction_consistency == _calculate_consistency(preds)
      IN  [available |-> TRUE, raised |-> FALSE, error |-> "",
           predicted_outcome |-> ArgMaxOutcome(outcome_probabilities),
           score_prediction |->
              [home |-> Round(RSum([i \in 1..n |->
                            RMul(RInt(preds[i].pred.score_prediction.home), w(i))])),
               away |-> Round(RSum([i \in 1..n |->
                            RMul(RInt(preds[i].pred.score_prediction.away), w(i))]))],
           confidence |-> RSum([i \in 1..n |-> RMul(preds[i].pred.confidence, w(i))]),
           reasoning |-> UNION {ReasoningOf[preds[i].model] : i \in 1..n},
           key_factors |-> {},
           risk_assessment |-> _assess_risk(preds, prediction_consistency),
           model_agreement |->
              Cardinality({preds[i].pred.predicted_outcome : i \in 1..n}) = 1,
           consistency_score |-> prediction_consistency,
           outcome_probabilities |-> outcome_probabilities,
           uncertainty |-> NoUncertainty]

\* AIPredictionService._advanced_ensemble
_advanced_ensemble(preds, bw) ==
    LET adjusted_weights == _calculate_dynamic_weights(preds, bw)
        combined_prediction == _weighted_aggregate(preds, adjusted_weights)
    IN  IF combined_prediction.raised THEN combined_prediction
        ELSE [combined_prediction EXCEPT !.uncertainty = _estimate_uncertainty(preds)]

\* Position of a run: agg_pc in 1..Len(Models) awaits that provider, the next
\* value aggregates, AggDone is after the aggregation.
AggDone == Len(Models) + 2

NoValidation == [model |-> "", raw |-> <<>>, result |-> Rejected("")]

InitAgg ==
    /\ IdleValue
    /\ IdleSchema
    /\ IdleRerun
    /\ IdleFurther
    /\ IdleSettle
    /\ IdleMarkets
    /\ IdleCycle
    /\ agg_pc = 1
    /\ base_weights \in {ConfiguredWeights, EqualWeights}
    /\ validation = NoValidation
    /\ predictions = <<>>
    /\ ensemble = NoEnsemble(FALSE, "")
    /\ agg_weights = <<>>

\* The provider awaited gave no answer (its call failed or timed out).
provider_unavailable ==
    /\ agg_pc \in 1..Len(Models)
    /\ agg_pc' = agg_pc + 1
    /\ UNCHANGED <<base_weights, validation, predictions, ensemble, agg_weights>>
    /\ UNCHANGED <<valueVars, settleVars, marketVars, cycleVars, schemaVars, rerunVars, furtherVars>>

\* The provider awaited answered with a parsed JSON object, which is validated
\* and, when accepted, appended to the list under the provider's name.
validate_forecast ==
    /\ agg_pc \in 1..Len(Models)
    /\ \E raw \in RawForecasts :
         LET result == _validate_and_format_prediction(raw)
         IN  /\ validation' = [model |-> Models[agg_pc], raw |-> raw, result |-> result]
             /\ predictions' =
                    IF result.accepted
                    THEN Append(predictions, [model |-> Models[agg_pc], pred |-> result])
                    ELSE predictions
    /\ agg_pc' = agg_pc + 1
    /\ UNCHANGED <<base_weights, ensemble, agg_weights>>
    /\ UNCHANGED <<valueVars, settleVars, marketVars, cycleVars, schemaVars, rerunVars, furtherVars>>

\* _advanced_ensemble applied to the non-empty list of validated forecasts.
advanced_ensemble ==
    /\ agg_pc = Len(Models) + 1
    /\ predictions # <<>>
    /\ ensemble' = _advanced_ensemble(predictions, base_weights)
    /\ agg_weights' = _calculate_dynamic_weights(predictions, base_weights)
    /\ agg_pc' = AggDone
    /\ UNCHANGED <<base_weights, validation, predictions>>
    /\ UNCHANGED <<valueVars, settleVars, marketVars, cycleVars, schemaVars, rerunVars, furtherVars>>

\* No validated forecast was collected: the run yields None.
no_predictions ==
    /\ agg_pc = Len(Models) + 1
    /\ predictions = <<>>
    /\ agg_pc' = AggDone
    /\ UNCHANGED <<base_weights, validation, predictions, ensemble, agg_weights>>
    /\ UNCHANGED <<valueVars, settleVars, marketVars, cycleVars, schemaVars, rerunVars, furtherVars>>

NextAgg ==
    provider_unavailable \/ validate_forecast \/ advanced_ensemble \/ no_predictions

SpecAgg == InitAgg /\ [][NextAgg]_vars

MassSum(e) == RSum([i \in 1..3 |-> e.outcome_probabilities[OUTCOME_ORDER[i]]])

\* C1: for every non-empty list of validated forecasts, also when only some of
\* the providers of the base weight map responded, the outcome probability
\* mass of the ensemble forecast sums to 1.
C1_MassSumsToOne ==
    (agg_pc = AggDone /\ ensemble.available) => MassSum(ensemble) = One

\* C9: the validator rejects a raw forecast that misses a required field, whose
\* confidence is outside [0, 1] or whose predicted_outcome is not one of the
\* three tokens, and no forecast with another token is in the list aggregated.
C9_ValidatorRejects ==
    /\ validation.model # "" =>
          ((\/ ~(REQUIRED_FIELDS \subseteq validation.raw.fields)
            \/ RLt(validation.raw.confidence, Zero)
            \/ RLt(One, validation.raw.confidence)
            \/ validation.raw.predicted_outcome \notin Outcomes)
           => ~validation.result.accepted)
    /\ \A i \in 1..Len(predictions) : predictions[i].pred.predicted_outcome \in Outcomes

(***************************************************************************)
(* Derived markets: AIPredictionService._get_additional_predictions        *)
(***************************************************************************)
TEAM_KEYS == {"rating", "form", "home_advantage"}

\* Team dicts: two with every key, one of a side without any recent result,
\* and one without any key (every .get default).
Teams ==
    {[keys |-> TEAM_KEYS, rating |-> RInt(60), form |-> <<"L", "L", "X">>,
      home_advantage |-> One],
     [keys |-> TEAM_KEYS, rating |-> RInt(70), form |-> <<>>, home_advantage |-> One],
     [keys |-> TEAM_KEYS, rating |-> RInt(90), form |-> <<"W", "W", "D", "L", "W">>,
      home_advantage |-> Rat(11, 10)],
     [keys |-> {}, rating |-> Zero, form |-> <<>>, home_advantage |-> Zero]}

\* The replacement fields of the prompt, in the order the f-string reads them.
PROMPT_KEYS ==
    <<"home_team", "away_team", "competition", "home_form", "home_goals_scored_avg",
      "home_goals_conceded_avg", "home_team_rating", "away_form",
      "away_goals_scored_avg", "away_goals_conceded_avg", "away_team_rating",
      "head_to_head_stats", "home_rest_days", "away_rest_days">>
PromptKeys == {PROMPT_KEYS[i] : i \in 1..Len(PROMPT_KEYS)}

\* match_data dicts.  keys holds the keys of PROMPT_KEYS the dict has; an
\* absent is_derby, match_importance, attacking_style or attacking_factor is
\* FALSE, "medium", "balanced" or 0, which the code treats as absence.
MatchData(keys, home, away, derby, importance, style, factor) ==
    [keys |-> keys, home_team |-> home, away_team |-> away, is_derby |-> derby,
     match_importance |-> importance, attacking_style |-> style,
     attacking_factor |-> factor]

MarketRaised(err) == [raised |-> TRUE, error |-> err]

\* AIPredictionService._calculate_form_strength
FormValue(result) == IF result = "W" THEN 2 ELSE IF result = "L" THEN 0 ELSE 1
RECURSIVE FormSum(_)
FormSum(form) == IF form = <<>> THEN 0 ELSE FormValue(Head(form)) + FormSum(Tail(form))
_calculate_form_strength(form) == Rat(FormSum(form), Len(form) * 2)

\* A call of _calculate_form_strength: len(form) * 2 is 0 for the empty string
\* and the division raises.
form_strength_call(form) ==
    IF Len(form) = 0 THEN [raised |-> TRUE, error |-> "ZeroDivisionError", value |-> Zero]
    ELSE [raised |-> FALSE, error |-> "", value |-> _calculate_form_strength(form)]

DefaultForm == <<"D", "D", "D", "D", "D">>

\* AIPredictionService._calculate_team_strength
_calculate_team_strength(team_data) ==
    LET rating == IF "rating" \in team_data.keys THEN team_data.rating ELSE RInt(75)
        form == IF "form" \in team_data.keys THEN team_data.form ELSE DefaultForm
        home_advantage ==
            IF "home_advantage" \in team_data.keys THEN team_data.home_advantage
            ELSE Rat(11, 10)
    IN  RAdd(RAdd(RMul(rating, Rat(4, 10)),
                  RMul(_calculate_form_strength(form), Rat(3, 10))),
             RMul(home_advantage, Rat(3, 10)))

\* AIPredictionService._predict_corners
_predict_corners(md) ==
    LET style_factor ==
            IF md.attacking_style = "wing_play" THEN Rat(12, 10)
            ELSE IF md.attacking_style = "central" THEN Rat(9, 10) ELSE One
    IN  Round(RMul(RInt(10), style_factor))

\* AIPredictionService._predict_cards
_predict_cards(md) ==
    LET derby == IF md.is_derby THEN Rat(13, 10) ELSE One
        importance == IF md.match_importance = "high" THEN Rat(12, 10) ELSE One
    IN  Round(RMul(RInt(4), RMul(derby, importance)))

\* AIPredictionService._predict_detailed_corners: the class defines no
\* _calculate_team_attacking_strength, so the attribute lookup of line 220
\* raises before any record is built.
_predict_detailed_corners(md) == MarketRaised("AttributeError")

\* AIPredictionService._predict_detailed_cards
_predict_detailed_cards(md) ==
    LET base_cards == _predict_cards(md)
        derby_factor == IF md.is_derby THEN Rat(13, 10) ELSE One
        importance_factor == IF md.match_importance = "high" THEN Rat(12, 10) ELSE One
    IN  [raised |-> FALSE,
         total |-> base_cards,
         yellow_cards |-> Round(RMul(RInt(base_cards), Rat(85, 100))),
         red_cards |->
            IF RLt(Rat(14, 10), RMul(derby_factor, importance_factor))
            THEN Round(RMul(RInt(base_cards), Rat(15, 100))) ELSE 0,
         first_yellow_before |-> IF RLt(One, derby_factor) THEN "30" ELSE "45",
         home_team |-> Round(RMul(RInt(base_cards), Rat(1, 2))),
         away_team |-> Round(RMul(RInt(base_cards), Rat(1, 2))),
         confidence |-> Rat(7, 10)]

\* The form of a team dict is handed to _calculate_form_strength, whose
\* division raises for the empty string.
team_strength_raises(team_data) ==
    "form" \in team_data.keys /\ form_strength_call(team_data.form).raised

\* AIPredictionService._predict_possession
_predict_possession(md) ==
    IF ~({"home_team", "away_team"} \subseteq md.keys) THEN MarketRaised("KeyError")
    ELSE IF team_strength_raises(md.home_team) \/ team_strength_raises(md.away_team)
    THEN MarketRaised("ZeroDivisionError")
    ELSE
      LET home_strength == _calculate_team_strength(md.home_team)
          away_strength == _calculate_team_strength(md.away_team)
          total_strength == RAdd(home_strength, away_strength)
          home_possession == Round(RMul(RDiv(home_strength, total_strength), RInt(100)))
      IN  [raised |-> FALSE,
           home_team |-> home_possession,
           away_team |-> 100 - home_possession,
           dominant_team |->
              IF home_possession > 55 THEN "home"
              ELSE IF home_possession < 45 THEN "away" ELSE "balanced",
           confidence |-> Rat(65, 100)]

\* AIPredictionService._predict_shots
_predict_shots(md) ==
    LET total_shots == Round(RAdd(RInt(12), RMul(md.attacking_factor, RInt(2))))
    IN  [raised |-> FALSE,
         total_shots |-> total_shots,
         on_target |-> Round(RMul(RInt(total_shots), Rat(4, 10))),
         home_team |-> Round(RMul(RInt(total_shots), Rat(55, 100))),
         away_team |-> Round(RMul(RInt(total_shots), Rat(45, 100))),
         confidence |-> Rat(6, 10)]

\* The placeholder producers return a bare value, no dict.
_predict_clean_sheet(md) == [raised |-> FALSE, value |-> FALSE]
_predict_win_to_nil(md) == [raised |-> FALSE, value |-> FALSE]
_predict_goal_timing(md) == [raised |-> FALSE, value |-> "early"]
_predict_player_goals(md) == [raised |-> FALSE, value |-> <<>>]

\* AIPredictionService._get_additional_predictions.  The dict display is
\* evaluated in order, so the first producer that raises ends the call; the
\* confidence_intervals and correlation_analysis entries, which are no
\* markets, are left out.
_get_additional_predictions(md, base) ==
    LET home == base.score_prediction.home
        away == base.score_prediction.away
        total_goals == home + away
        corners == _predict_detailed_corners(md)
        cards == _predict_detailed_cards(md)
        possession == _predict_possession(md)
        shots == _predict_shots(md)
    IN  IF corners.raised THEN corners
        ELSE IF possession.raised THEN possession
        ELSE [raised |-> FALSE,
              markets |->
                [over_under |->
                    [raised |-> FALSE, total_goals |-> total_goals,
                     over_2_5 |-> total_goals > 2, over_3_5 |-> total_goals > 3,
                     over_1_5 |-> total_goals > 1, under_1_5 |-> total_goals < 2,
                     under_2_5 |-> total_goals < 3,
                     confidence |-> RMul(base.confidence, Rat(9, 10))],
                 btts |->
                    [raised |-> FALSE, prediction |-> (home > 0 /\ away > 0),
                     confidence |-> RMul(base.confidence, Rat(85, 100)),
                     both_score_ht |-> FALSE, both_score_either_half |-> FALSE],
                 first_half |->
                    [raised |-> FALSE,
                     home_score |-> Round(RMul(RInt(home), Rat(4, 10))),
                     away_score |-> Round(RMul(RInt(away), Rat(4, 10))),
                     confidence |-> RMul(base.confidence, Rat(7, 10)),
                     most_goals |-> "first_half"],
                 corners |-> corners,
                 cards |-> cards,
                 possession |-> possession,
                 shots |-> shots,
                 clean_sheet |-> _predict_clean_sheet(md),
                 win_to_nil |-> _predict_win_to_nil(md),
                 goal_timing |-> _predict_goal_timing(md),
                 player_goals |-> _predict_player_goals(md)]]

\* Confidence of the ensemble forecast the markets are derived from.
BaseConfidences == {Rat(3, 10), Rat(8, 10), One}

InitMarkets ==
    /\ IdleValue
    /\ IdleSchema
    /\ IdleRerun
    /\ IdleFurther
    /\ IdleSettle
    /\ IdleAgg
    /\ IdleCycle
    /\ match_data \in
          {MatchData(PromptKeys, h, a, d, i, st, f) :
              h \in Teams, a \in Teams, d \in BOOLEAN, i \in {"medium", "high"},
              st \in {"balanced", "wing_play", "central"}, f \in {Zero, One}}
    /\ base_prediction \in [score_prediction : ProviderScores, confidence : BaseConfidences]
    /\ market_call = ""
    /\ market_result = <<>>

get_additional_predictions ==
    /\ market_call = ""
    /\ market_call' = "_get_additional_predictions"
    /\ market_result' = _get_additional_predictions(match_data, base_prediction)
    /\ UNCHANGED <<match_data, base_prediction>>
    /\ UNCHANGED <<valueVars, settleVars, aggVars, cycleVars, schemaVars, rerunVars, furtherVars>>

predict_detailed_corners ==
    /\ market_call = ""
    /\ market_call' = "_predict_detailed_corners"
    /\ market_result' = _predict_detailed_corners(match_data)
    /\ UNCHANGED <<match_data, base_prediction>>
    /\ UNCHANGED <<valueVars, settleVars, aggVars, cycleVars, schemaVars, rerunVars, furtherVars>>

predict_detailed_cards ==
    /\ market_call = ""
    /\ market_call' = "_predict_detailed_cards"
    /\ market_result' = _predict_detailed_cards(match_data)
    /\ UNCHANGED <<match_data, base_prediction>>
    /\ UNCHANGED <<valueVars, settleVars, aggVars, cycleVars, schemaVars, rerunVars, furtherVars>>

predict_possession ==
    /\ market_call = ""
    /\ market_call' = "_predict_possession"
    /\ market_result' = _predict_possession(match_data)
    /\ UNCHANGED <<match_data, base_prediction>>
    /\ UNCHANGED <<valueVars, settleVars, aggVars, cycleVars, schemaVars, rerunVars, furtherVars>>

predict_shots ==
    /\ market_call = ""
    /\ market_call' = "_predict_shots"
    /\ market_result' = _predict_shots(match_data)
    /\ UNCHANGED <<match_data, base_prediction>>
    /\ UNCHANGED <<valueVars, settleVars, aggVars, cycleVars, schemaVars, rerunVars, furtherVars>>

NextMarkets ==
    \/ get_additional_predictions
    \/ predict_detailed_corners
    \/ predict_detailed_cards
    \/ predict_possession
    \/ predict_shots

SpecMarkets == InitMarkets /\ [][NextMarkets]_vars

\* The market records the call made has produced.
ProducedMarkets ==
    IF market_call = "" \/ market_result.raised THEN {}
    ELSE IF market_call = "_get_additional_predictions"
    THEN {market_result.markets[k] : k \in DOMAIN market_result.markets}
    ELSE {market_result}

\* C2: every derived market record that is produced (over_under, btts,
\* first_half, corners, cards, possession, shots and every other market)
\* carries a confidence field, whose value is at most the confidence of the
\* ensemble forecast it was derived from.
C2_MarketConfidenceBounded ==
    \A r \in ProducedMarkets :
        /\ "confidence" \in DOMAIN r
        /\ RLeq(r.confidence, base_prediction.confidence)

(***************************************************************************)
(* One prediction cycle: AIPredictionService.get_comprehensive_prediction  *)
(***************************************************************************)
\* AIPredictionService._prepare_gpt_prompt.  The f-string reads the keys of
\* PROMPT_KEYS in order, a missing one raising KeyError; the braces of the
\* JSON example that follows are replacement fields too, and formatting the
\* inner one raises ValueError (invalid format specifier).  No input yields
\* a prompt.
_prepare_gpt_prompt(md) ==
    LET missing == {i \in 1..Len(PROMPT_KEYS) : PROMPT_KEYS[i] \notin md.keys}
    IN  IF missing # {}
        THEN [raised |-> TRUE, error |-> "KeyError",
              key |-> PROMPT_KEYS[CHOOSE i \in missing : \A j \in missing : i <= j]]
        ELSE [raised |-> TRUE, error |-> "ValueError", key |-> ""]

\* AIPredictionService._prepare_deepseek_prompt
_prepare_deepseek_prompt(md) == _prepare_gpt_prompt(md)

\* What the HTTP exchange with a provider can give: a transport failure, a
\* timeout, an error status, a body that is no JSON, or a JSON object.
ReplyFailures == {"ConnectError", "TimeoutException", "HTTPStatusError", "JSONDecodeError"}
Replies ==
    {[kind |-> k, raw |-> <<>>] : k \in ReplyFailures}
    \cup {[kind |-> "json", raw |-> r] : r \in RawForecasts}

\* The provider's answer is a JSON forecast that the validator accepts.
ValidReply(reply) ==
    reply.kind = "json" /\ _validate_and_format_prediction(reply.raw).accepted

ProviderRaised(err) ==
    [raised |-> TRUE, none |-> FALSE, error |-> err, value |-> Rejected("")]
ProviderNone(err) ==
    [raised |-> FALSE, none |-> TRUE, error |-> err, value |-> Rejected("")]
ProviderValue(v) == [raised |-> FALSE, none |-> FALSE, error |-> "", value |-> v]

\* What the body of the try block of a provider call comes to: the exception
\* it raises, or the validated forecast.
ProviderAttempt(prompt, reply) ==
    IF prompt.raised THEN ProviderRaised(prompt.error)
    ELSE IF reply.kind # "json" THEN ProviderRaised(reply.kind)
    ELSE LET v == _validate_and_format_prediction(reply.raw)
         IN  IF v.accepted THEN ProviderValue(v) ELSE ProviderRaised("ValueError")

\* AIPredictionService.get_gpt4_prediction: except Exception logs and
\* returns None.
get_gpt4_prediction_no_except(md, reply) ==
    ProviderAttempt(_prepare_gpt_prompt(md), reply)
get_gpt4_prediction(md, reply) ==
    LET attempt == ProviderAttempt(_prepare_gpt_prompt(md), reply)
    IN  IF attempt.raised THEN ProviderNone(attempt.error) ELSE attempt

\* AIPredictionService.get_deepseek_prediction
get_deepseek_prediction(md, reply) ==
    LET attempt == ProviderAttempt(_prepare_deepseek_prompt(md), reply)
    IN  IF attempt.raised THEN ProviderNone(attempt.error) ELSE attempt

\* AIPredictionService._calculate_prediction_quality
_calculate_prediction_quality(preds, ens) ==
    LET confs == {preds[i].pred.confidence : i \in 1..Len(preds)}
        hi == CHOOSE c \in confs : \A d \in confs : RLeq(d, c)
        lo == CHOOSE c \in confs : \A d \in confs : RLeq(c, d)
    IN  [model_diversity |-> Cardinality({preds[i].model : i \in 1..Len(preds)}),
         confidence_range |-> RSub(hi, lo),
         ensemble_strength |-> RMul(ens.consistency_score, ens.confidence),
         uncertainty_level |-> RSub(One, ens.consistency_score)]

CycleResult(status, err, ens, markets, quality) ==
    [status |-> status, error |-> err, prediction |-> ens,
     additional |-> markets, quality_metrics |-> quality]

\* get_comprehensive_prediction after the provider calls (lines 156-171).
CombineCollected(preds, md) ==
    IF preds = <<>> THEN CycleResult("none", "", <<>>, <<>>, <<>>)
    ELSE
      LET ens == _advanced_ensemble(preds, ConfiguredWeights)
          additional == _get_additional_predictions(md, ens)
      IN  IF ens.raised THEN CycleResult("raised", ens.error, <<>>, <<>>, <<>>)
          ELSE IF additional.raised
          THEN CycleResult("raised", additional.error, <<>>, <<>>, <<>>)
          ELSE CycleResult("prediction", "", ens, additional.markets,
                           _calculate_prediction_quality(preds, ens))

\* Position of a cycle: cycle_pc in 1..Len(Models) is at that provider, the
\* next value combines, CycleDone is after the return or the exception.
CycleDone == Len(Models) + 2

\* The match_data dicts of a cycle: every prompt key, all but one, the three
\* keys the command line passes, and none.
CycleKeySets ==
    {PromptKeys} \cup {PromptKeys \ {k} : k \in PromptKeys}
    \cup {{"home_team", "away_team", "competition"}, {}}

InitCycle ==
    /\ IdleValue
    /\ IdleSchema
    /\ IdleRerun
    /\ IdleFurther
    /\ IdleSettle
    /\ IdleAgg
    /\ match_data \in
          {MatchData(keys, t, t, FALSE, "medium", "balanced", Zero) :
              keys \in CycleKeySets, t \in {tm \in Teams : tm.keys = {}}}
    /\ base_prediction = <<>>
    /\ market_call = ""
    /\ market_result = <<>>
    /\ cycle_pc = 1
    /\ settings \in [OPENAI_API_KEY : BOOLEAN, DEEPSEEK_API_KEY : BOOLEAN]
    /\ collected = <<>>
    /\ provider_log = <<>>
    /\ called = <<>>
    /\ comprehensive = CycleResult("running", "", <<>>, <<>>, <<>>)

\* The await of a provider call: its exception ends the cycle, its None is
\* skipped, its forecast is appended under the provider's name.
Awaited(model, r) ==
    IF r.raised
    THEN /\ cycle_pc' = CycleDone
         /\ comprehensive' = CycleResult("raised", r.error, <<>>, <<>>, <<>>)
         /\ UNCHANGED <<collected, provider_log>>
    ELSE /\ cycle_pc' = cycle_pc + 1
         /\ collected' =
              IF r.none THEN collected
              ELSE Append(collected, [model |-> model, pred |-> r.value])
         /\ provider_log' =
              IF r.none THEN Append(provider_log, [model |-> model, error |-> r.error])
              ELSE provider_log
         /\ UNCHANGED comprehensive

call_gpt4 ==
    /\ cycle_pc = 1
    /\ settings.OPENAI_API_KEY
    /\ \E reply \in Replies :
          /\ Awaited("gpt4", get_gpt4_prediction(match_data, reply))
          /\ called' = Append(called, [model |-> "gpt4", valid_reply |-> ValidReply(reply)])
    /\ UNCHANGED <<settings, match_data, base_prediction, market_call, market_result>>
    /\ UNCHANGED <<valueVars, settleVars, aggVars, schemaVars, rerunVars, furtherVars>>

skip_gpt4 ==
    /\ cycle_pc = 1
    /\ ~settings.OPENAI_API_KEY
    /\ cycle_pc' = cycle_pc + 1
    /\ UNCHANGED <<settings, collected, provider_log, called, comprehensive>>
    /\ UNCHANGED <<valueVars, settleVars, aggVars, marketVars, schemaVars, rerunVars, furtherVars>>

call_deepseek ==
    /\ cycle_pc = 2
    /\ settings.DEEPSEEK_API_KEY
    /\ \E reply \in Replies :
          /\ Awaited("deepseek", get_deepseek_prediction(match_data, reply))
          /\ called' =
                Append(called, [model |-> "deepseek", valid_reply |-> ValidReply(reply)])
    /\ UNCHANGED <<settings, match_data, base_prediction, market_call, market_result>>
    /\ UNCHANGED <<valueVars, settleVars, aggVars, schemaVars, rerunVars, furtherVars>>

skip_deepseek ==
    /\ cycle_pc = 2
    /\ ~settings.DEEPSEEK_API_KEY
    /\ cycle_pc' = cycle_pc + 1
    /\ UNCHANGED <<settings, collected, provider_log, called, comprehensive>>
    /\ UNCHANGED <<valueVars, settleVars, aggVars, marketVars, schemaVars, rerunVars, furtherVars>>

combine_and_return ==
    /\ cycle_pc = Len(Models) + 1
    /\ comprehensive' = CombineCollected(collected, match_data)
    /\ cycle_pc' = CycleDone
    /\ UNCHANGED <<settings, collected, provider_log, called>>
    /\ UNCHANGED <<valueVars, settleVars, aggVars, marketVars, schemaVars, rerunVars, furtherVars>>

NextCycle ==
    call_gpt4 \/ skip_gpt4 \/ call_deepseek \/ skip_deepseek \/ combine_and_return

SpecCycle == InitCycle /\ [][NextCycle]_vars

TopMassOutcomes(e) ==
    {o \in Outcomes :
        \A q \in Outcomes : RLeq(e.outcome_probabilities[q], e.outcome_probabilities[o])}

\* The number of providers that predicted outcome o.
Votes(preds, o) == Cardinality({i \in 1..Len(preds) : preds[i].pred.predicted_outcome = o})

\* Among the outcomes of cands, those most providers predicted.
MajorityOutcomes(preds, cands) ==
    {o \in cands : \A q \in cands : Votes(preds, q) <= Votes(preds, o)}

\* The winner by largest mass, ties broken by the unweighted majority and then
\* by the provider that comes first in the input order.
TieBrokenWinner(preds, e) ==
    LET cands == MajorityOutcomes(preds, TopMassOutcomes(e))
        first == CHOOSE i \in 1..Len(preds) :
                    /\ preds[i].pred.predicted_outcome \in cands
                    /\ \A j \in 1..(i - 1) : preds[j].pred.predicted_outcome \notin cands
    IN  preds[first].pred.predicted_outcome

\* C11: the winning outcome has the largest accumulated weight mass, and a
\* tie on weight mass is broken first by the unweighted majority outcome among
\* the providers and then by the outcome of the provider first in input order.
C11_TieBreakByMajorityThenOrder ==
    (agg_pc = AggDone /\ ensemble.available) =>
        /\ ensemble.predicted_outcome \in TopMassOutcomes(ensemble)
        /\ ensemble.predicted_outcome = TieBrokenWinner(predictions, ensemble)

(***************************************************************************)
(* The two-provider example: A home_win 2-1 with confidence 0.8, B         *)
(* home_win 1-1 with confidence 0.6, equal base weights                    *)
(***************************************************************************)
ExampleA ==
    [accepted |-> TRUE, error |-> "", predicted_outcome |-> "home_win",
     score_prediction |-> [home |-> 2, away |-> 1], confidence |-> Rat(8, 10)]
ExampleB ==
    [accepted |-> TRUE, error |-> "", predicted_outcome |-> "home_win",
     score_prediction |-> [home |-> 1, away |-> 1], confidence |-> Rat(6, 10)]

\* The aggregator has run on the example.
ExampleAggregated ==
    /\ agg_pc = AggDone
    /\ base_weights = EqualWeights
    /\ predictions = <<[model |-> "gpt4", pred |-> ExampleA],
                       [model |-> "deepseek", pred |-> ExampleB]>>

\* C12 as stated: for the example the aggregator reports consistency score
\* 1.0 and risk label low.
C12_ExampleConsistentLowRisk ==
    ExampleAggregated =>
        /\ ensemble.consistency_score = One
        /\ ensemble.risk_assessment = "low"

\* C12 amended: for the example the aggregator reports consistency score
\* 0.89 (the scores 2-1 and 1-1 have average variance 0.125) and risk label
\* medium (the mean confidence 0.7 is not above 0.75).
C12_ExampleConsistencyAndRisk ==
    ExampleAggregated =>
        /\ ensemble.consistency_score = Rat(89, 100)
        /\ ensemble.risk_assessment = "medium"

C12_Witness == ExampleAggregated /\ ensemble.available /\ ensemble.model_agreement

\* C13: for the example the dynamic weights after clamp and renormalization
\* are 4/7 for A and 3/7 for B, the combined score is home 2, away 1, and the
\* combined confidence is 5/7.
C13_ExampleWeightsScoreConfidence ==
    ExampleAggregated =>
        /\ agg_weights = [gpt4 |-> Rat(4, 7), deepseek |-> Rat(3, 7)]
        /\ ensemble.score_prediction = [home |-> 2, away |-> 1]
        /\ ensemble.confidence = Rat(5, 7)

C13_Witness ==
    ExampleAggregated /\ ensemble.available /\ ensemble.predicted_outcome = "home_win"

(***************************************************************************)
(* Order of the provider calls in a cycle                                  *)
(***************************************************************************)
\* The providers whose API key is configured.
ConfiguredProviders ==
    {m \in ModelNames :
        \/ m = "gpt4" /\ settings.OPENAI_API_KEY
        \/ m = "deepseek" /\ settings.DEEPSEEK_API_KEY}

\* The providers whose call has returned: with a forecast, or with None
\* after a failure or timeout.
ReturnedProviders ==
    {provider_log[i].model : i \in 1..Len(provider_log)}
    \cup {collected[i].model : i \in 1..Len(collected)}

\* C14: in a cycle the request to every configured provider is issued before
\* the response (or timeout) of any other provider has been received.
C14_RequestsIssuedConcurrently ==
    ReturnedProviders # {} =>
        \A m \in ConfiguredProviders : \E i \in 1..Len(called) : called[i].model = m

(***************************************************************************)
(* The composite result of a cycle                                         *)
(***************************************************************************)
COMPOSITE_MARKETS ==
    {"over_under", "btts", "first_half", "corners", "cards", "possession", "shots",
     "clean_sheet", "win_to_nil", "goal_timing", "player_goals"}

\* C15: whenever the forecast of at least one provider passes validation (the
\* match_data holding every key the prompt reads),
\* get_comprehensive_prediction completes without raising and returns one
\* composite result with predicted_outcome, score_prediction, confidence, the
\* markets of COMPOSITE_MARKETS and quality_metrics, its confidence in [0, 1].
C15_CompositeResult ==
    (/\ cycle_pc = CycleDone
     /\ match_data.keys = PromptKeys
     /\ \E i \in 1..Len(called) : called[i].valid_reply) =>
        /\ comprehensive.status = "prediction"
        /\ comprehensive.prediction.predicted_outcome \in Outcomes
        /\ COMPOSITE_MARKETS \subseteq DOMAIN comprehensive.additional
        /\ DOMAIN comprehensive.quality_metrics # {}
        /\ RLeq(Zero, comprehensive.prediction.confidence)
        /\ RLeq(comprehensive.prediction.confidence, One)

(***************************************************************************)
(* Performance metrics of a settlement                                     *)
(***************************************************************************)
\* C18: after settlement of a completed match, score_accuracy and
\* goal_difference_accuracy both lie in [0, 1] for every pair of predicted and
\* actual scores with non-negative integer goals.
C18_AccuracyInUnitInterval ==
    settlement.has_metrics =>
        /\ RLeq(Zero, settlement.score_accuracy)
        /\ RLeq(settlement.score_accuracy, One)
        /\ RLeq(Zero, settlement.goal_difference_accuracy)
        /\ RLeq(settlement.goal_difference_accuracy, One)

(***************************************************************************)
(* Double chance, Asian handicap and half-time/full-time markets           *)
(***************************************************************************)
\* An entry of one of these markets: a probability in [0, 1] and a boolean
\* recommendation.
IsMarketEntry(e) ==
    /\ {"probability", "prediction"} \subseteq DOMAIN e
    /\ RLeq(Zero, e.probability) /\ RLeq(e.probability, One)
    /\ e.prediction \in BOOLEAN

HTFT_COMBINATIONS == {"HH", "HD", "HA", "DH", "DD", "DA", "AH", "AD", "AA"}

\* C16: every comprehensive prediction contains the markets double_chance
\* (entries home_draw, home_away, draw_away), asian_handicap and
\* halftime_fulltime (combinations among HH..AA plus most_likely), each entry
\* with a probability in [0, 1] and a boolean recommendation.
C16_HandicapMarketsPresent ==
    market_call = "_get_additional_predictions" =>
        /\ ~market_result.raised
        /\ {"double_chance", "asian_handicap", "halftime_fulltime"}
              \subseteq DOMAIN market_result.markets
        /\ DOMAIN market_result.markets.double_chance
              = {"raised", "home_draw", "home_away", "draw_away"}
        /\ \A k \in {"home_draw", "home_away", "draw_away"} :
              IsMarketEntry(market_result.markets.double_chance[k])
        /\ \A line \in DOMAIN market_result.markets.asian_handicap :
              IsMarketEntry(market_result.markets.asian_handicap[line])
        /\ DOMAIN market_result.markets.halftime_fulltime.combinations
              \subseteq HTFT_COMBINATIONS
        /\ \A c \in DOMAIN market_result.markets.halftime_fulltime.combinations :
              IsMarketEntry(market_result.markets.halftime_fulltime.combinations[c])
        /\ market_result.markets.halftime_fulltime.most_likely.outcome
              \in HTFT_COMBINATIONS

(***************************************************************************)
(* Asian handicap records: schemas/prediction.py                           *)
(***************************************************************************)
MaxLineQuarters == 10   \* handicap lines range over k/4, |k| <= MaxLineQuarters

\* valid_lines of AsianHandicapOutcome.validate_line
VALID_LINES ==
    {Rat(-2, 1), Rat(-3, 2), Rat(-1, 1), Rat(-1, 2), Zero, Rat(1, 2), One, Rat(3, 2),
     Rat(2, 1)}

\* AsianHandicapOutcome.validate_line
validate_line_in_range(v) ==
    IF RLt(v, Rat(-2, 1)) \/ RLt(Rat(2, 1), v)
    THEN [raised |-> TRUE, value |-> v] ELSE [raised |-> FALSE, value |-> v]
validate_line(v) ==
    IF v \notin VALID_LINES
    THEN [raised |-> TRUE, value |-> v] ELSE [raised |-> FALSE, value |-> v]

\* Field(ge=0.0, le=1.0)
InUnitRange(x) == RLeq(Zero, x) /\ RLeq(x, One)

\* class AsianHandicapPrediction: the fields that fail validation
AsianHandicapPrediction(p) ==
    {f \in {"probability", "confidence"} : ~InUnitRange(p[f])}

\* class AsianHandicapOutcome: construction validates every field and raises
\* one ValidationError that lists the fields that failed.
AsianHandicapOutcome(input) ==
    LET errors ==
            (IF validate_line(input.line).raised THEN {"line"} ELSE {})
            \cup (IF AsianHandicapPrediction(input.prediction) # {}
                  THEN {"prediction"} ELSE {})
    IN  [validated |-> TRUE, created |-> errors = {}, errors |-> errors]

NotConstructed == [validated |-> FALSE, created |-> FALSE, errors |-> {}]

InitSchema ==
    /\ IdleValue
    /\ IdleRerun
    /\ IdleFurther
    /\ IdleSettle
    /\ IdleAgg
    /\ IdleMarkets
    /\ IdleCycle
    /\ handicap_input \in
          [line : {Rat(k, 4) : k \in (-MaxLineQuarters)..MaxLineQuarters},
           prediction : [probability : {Rat(-1, 10), Rat(1, 2), One},
                         prediction : BOOLEAN,
                         confidence : {Rat(1, 2), Rat(11, 10)}]]
    /\ handicap_result = NotConstructed

construct_asian_handicap_outcome ==
    /\ ~handicap_result.validated
    /\ handicap_result' = AsianHandicapOutcome(handicap_input)
    /\ UNCHANGED handicap_input
    /\ UNCHANGED <<valueVars, settleVars, aggVars, marketVars, cycleVars, rerunVars, furtherVars>>

NextSchema == construct_asian_handicap_outcome

SpecSchema == InitSchema /\ [][NextSchema]_vars

\* The lines the handicap market allows.
HandicapLines == {Rat(h, 2) : h \in -4..4}

\* C17: a line is accepted if and only if it is one of -2, -1.5, -1, -0.5, 0,
\* 0.5, 1, 1.5, 2; any other line is rejected with a validation error and no
\* AsianHandicapOutcome record is created for it.
C17_LineAcceptedIffValid ==
    handicap_result.validated =>
        /\ ("line" \notin handicap_result.errors) <=> (handicap_input.line \in HandicapLines)
        /\ handicap_input.line \notin HandicapLines => ~handicap_result.created

C17_Witness ==
    /\ handicap_result.validated
    /\ handicap_input.line = Rat(3, 4)
    /\ handicap_result.errors = {"line"}
    /\ ~handicap_result.created

(***************************************************************************)
(* The dynamic weights of an aggregation                                   *)
(***************************************************************************)
ConfidencesInUnitInterval ==
    \A i \in 1..Len(predictions) : InUnitRange(predictions[i].pred.confidence)

\* weight / base weight of a provider: its factor over the normalising total.
\* Two such quotients are compared by cross-multiplication.
FactorAtMostTwice(m, n) ==
    RLeq(RMul(agg_weights[m], base_weights[n]),
         RMul(RInt(2), RMul(agg_weights[n], base_weights[m])))

\* C20: for confidences in [0, 1] and positive base weights,
\* _calculate_dynamic_weights multiplies the base weight of each responding
\* provider by a factor in [0.5, 1.0] (the base weight of a provider that did
\* not respond is kept), and the weights it returns are each in [0, 1] and
\* sum to 1.
C20_DynamicWeightsNormalised ==
    (agg_pc = AggDone /\ agg_weights # <<>> /\ ConfidencesInUnitInterval) =>
        /\ \A m \in DOMAIN agg_weights : InUnitRange(agg_weights[m])
        /\ RSum([i \in 1..Len(Models) |-> agg_weights[Models[i]]]) = One
        /\ \A i \in 1..Len(predictions) :
              LET factor == ConfidenceFactor(predictions[i].pred.confidence)
              IN  RLeq(Rat(1, 2), factor) /\ RLeq(factor, One)
        /\ \A m, n \in DOMAIN agg_weights : FactorAtMostTwice(m, n)

C20_Witness ==
    /\ agg_pc = AggDone
    /\ agg_weights # <<>>
    /\ Len(predictions) = 2
    /\ predictions[1].pred.confidence = Rat(3, 10)
    /\ predictions[2].pred.confidence = Rat(8, 10)
    /\ base_weights = ConfiguredWeights
    /\ agg_weights[predictions[1].model] = Rat(15, 31)

(***************************************************************************)
(* Repeated aggregation of one forecast list                               *)
(*                                                                         *)
(* _weighted_aggregate returns list(set(all_reasoning)): the order of that *)
(* list is the iteration order of a set of strings, which follows the      *)
(* string hashes of the interpreter.  The hashes are fixed while an        *)
(* interpreter runs and are drawn anew when one starts.                    *)
(***************************************************************************)
MaxRuns == 2   \* how often the same list is aggregated

ReasoningStrings == UNION {ReasoningOf[m] : m \in ModelNames}

\* The iteration orders an interpreter may have for the reasoning strings.
HashOrders ==
    {o \in [1..Cardinality(ReasoningStrings) -> ReasoningStrings] :
        \A i, j \in DOMAIN o : o[i] = o[j] => i = j}

\* list(set(strings)) in an interpreter that iterates in the given order
ListOfSet(strings, order) == SelectSeq(order, LAMBDA x : x \in strings)

\* _advanced_ensemble with the reasoning as the list the caller receives
AggregatedForecast(input, order) ==
    LET e == _advanced_ensemble(input.predictions, input.base_weights)
    IN  [e EXCEPT !.reasoning = ListOfSet(e.reasoning, order)]

\* Validated forecasts of one provider
RerunForecasts ==
    {_validate_and_format_prediction(
        [fields |-> REQUIRED_FIELDS, predicted_outcome |-> o, score_prediction |-> sc,
         confidence |-> c]) :
        o \in Outcomes, sc \in {[home |-> 1, away |-> 0], [home |-> 1, away |-> 1]},
        c \in {Rat(3, 10), Rat(8, 10)}}

\* Lists of (model, forecast) in the order of the provider calls
RerunLists ==
    {<<[model |-> m, pred |-> p]>> : m \in ModelNames, p \in RerunForecasts}
    \cup {<<[model |-> Models[1], pred |-> p], [model |-> Models[2], pred |-> q]>> :
            p \in RerunForecasts, q \in RerunForecasts}

InitRerun ==
    /\ IdleValue
    /\ IdleFurther
    /\ IdleSchema
    /\ IdleSettle
    /\ IdleAgg
    /\ IdleMarkets
    /\ IdleCycle
    /\ hash_order \in HashOrders
    /\ rerun_input \in [predictions : RerunLists,
                         base_weights : {ConfiguredWeights, EqualWeights}]
    /\ rerun_results = <<>>

\* settings.AI_ENSEMBLE_WEIGHTS after a run: _calculate_dynamic_weights
\* adjusts weights = base_weights.copy(), so the map of the settings keeps
\* its values.
weights_after_run_without_copy(preds, bw) == AdjustWeights(preds, bw)
weights_after_run(preds, bw) == bw

\* One more run of the aggregator on the same list and base weights.
aggregate_again ==
    /\ Len(rerun_results) < MaxRuns
    /\ rerun_results' = Append(rerun_results, AggregatedForecast(rerun_input, hash_order))
    /\ rerun_input' =
          [rerun_input EXCEPT
              !.base_weights = weights_after_run(rerun_input.predictions, @)]
    /\ UNCHANGED hash_order
    /\ UNCHANGED <<valueVars, settleVars, aggVars, marketVars, cycleVars, schemaVars, furtherVars>>

\* The service is restarted between two runs: the new interpreter draws its
\* own string hashes.
restart_interpreter ==
    /\ rerun_results # <<>>
    /\ Len(rerun_results) < MaxRuns
    /\ \E o \in HashOrders : o # hash_order /\ hash_order' = o
    /\ UNCHANGED <<rerun_input, rerun_results>>
    /\ UNCHANGED <<valueVars, settleVars, aggVars, marketVars, cycleVars, schemaVars, furtherVars>>

NextRerun == aggregate_again \/ restart_interpreter

SpecRerun == InitRerun /\ [][NextRerun]_vars

\* C19: the aggregator is deterministic: runs on the same ordered forecast
\* list and base weights yield the same aggregated forecast in every field,
\* the reasoning and the key factors included.
C19_RerunsAgree ==
    \A i, j \in 1..Len(rerun_results) : rerun_results[i] = rerun_results[j]

\* Everything but the order of the reasoning list does agree between runs.
RerunsAgreeUpToOrder ==
    \A i, j \in 1..Len(rerun_results) :
        [rerun_results[i] EXCEPT !.reasoning = {@[k] : k \in DOMAIN @}]
            = [rerun_results[j] EXCEPT !.reasoning = {@[k] : k \in DOMAIN @}]

(***************************************************************************)
(* Form strength of a recent-form string                                   *)
(***************************************************************************)
MaxFormLen == 4   \* recent-form strings have at most this many results

IdleCore ==
    /\ IdleValue
    /\ IdleSettle
    /\ IdleAgg
    /\ IdleMarkets
    /\ IdleCycle
    /\ IdleSchema
    /\ IdleRerun

\* form_values
FORM_RESULTS == {"W", "D", "L"}

FormStrings == UNION {[1..n -> FORM_RESULTS] : n \in 0..MaxFormLen}

NotCalled == [called |-> FALSE, raised |-> FALSE, error |-> "", value |-> Zero]

InitForm ==
    /\ IdleCore
    /\ IdlePredict
    /\ IdleStore
    /\ IdleLoop
    /\ form_input \in FormStrings
    /\ form_result = NotCalled

calculate_form_strength ==
    /\ ~form_result.called
    /\ form_result' =
          LET r == form_strength_call(form_input)
          IN  [called |-> TRUE, raised |-> r.raised, error |-> r.error, value |-> r.value]
    /\ UNCHANGED form_input
    /\ UNCHANGED <<coreVars, predictVars, storeVars, loopVars>>

NextForm == calculate_form_strength

SpecForm == InitForm /\ [][NextForm]_vars

AllResults(form, r) == \A i \in DOMAIN form : form[i] = r

\* C22: for every recent-form string, _calculate_form_strength returns the
\* W=2/D=1/L=0 weighted count normalised to [0, 1]: 1 exactly when every
\* result is W, 0 exactly when every result is L, strictly between 0 and 1
\* for any other mix of W, D and L.
C22_FormStrengthNormalised ==
    form_result.called =>
        /\ ~form_result.raised
        /\ (form_result.value = One) <=> AllResults(form_input, "W")
        /\ (form_result.value = Zero) <=> AllResults(form_input, "L")
        /\ RLeq(Zero, form_result.value) /\ RLeq(form_result.value, One)

\* The same for the strings that hold at least one result.
FormStrengthNormalisedIfNonEmpty ==
    (form_result.called /\ form_input # <<>>) =>
        /\ ~form_result.raised
        /\ (form_result.value = One) <=> AllResults(form_input, "W")
        /\ (form_result.value = Zero) <=> AllResults(form_input, "L")
        /\ RLeq(Zero, form_result.value) /\ RLeq(form_result.value, One)

(***************************************************************************)
(* Possession shares                                                       *)
(***************************************************************************)
PossessionShares(r) ==
    /\ ~r.raised
    /\ r.home_team \in 0..100
    /\ r.away_team \in 0..100
    /\ r.home_team + r.away_team = 100
    /\ (r.dominant_team = "home") <=> (r.home_team > 55)
    /\ (r.dominant_team = "away") <=> (r.home_team < 45)
    /\ (r.dominant_team = "balanced") <=> (r.home_team \in 45..55)

\* C21: for every match context, _predict_possession returns home and away
\* possession shares that are integers in [0, 100] and sum to exactly 100,
\* with dominant_team home iff the home share exceeds 55, away iff it is
\* below 45, and balanced otherwise.
C21_PossessionShares ==
    market_call = "_predict_possession" => PossessionShares(market_result)

\* The same for the match contexts whose teams have a recent result each.
PossessionSharesWithForm ==
    (/\ market_call = "_predict_possession"
     /\ ~team_strength_raises(match_data.home_team)
     /\ ~team_strength_raises(match_data.away_team)) => PossessionShares(market_result)

(***************************************************************************)
(* A single responding provider                                            *)
(***************************************************************************)
\* C23: when exactly one of the configured providers passes validation, the
\* combined score and the combined confidence of the ensemble forecast equal
\* that provider's predicted score and confidence (its weight is 1 after
\* renormalisation): a provider that did not respond contributes no weight
\* mass to the blend.
C23_SoleResponderCarriesBlend ==
    (agg_pc = AggDone /\ Len(predictions) = 1 /\ ensemble.available) =>
        /\ agg_weights[predictions[1].model] = One
        /\ ensemble.score_prediction = predictions[1].pred.score_prediction
        /\ ensemble.confidence = predictions[1].pred.confidence

(***************************************************************************)
(* Range of the consistency score                                          *)
(***************************************************************************)
DistinctOutcomes ==
    Cardinality({predictions[i].pred.predicted_outcome : i \in 1..Len(predictions)})

\* C24: for any non-empty list of validated forecasts with non-negative
\* integer scores, the consistency score lies in [0, 1]; it is exactly 1.0
\* when there is a single provider, and for several providers it never
\* exceeds 1 divided by the number of distinct predicted outcomes.
C24_ConsistencyRange ==
    (agg_pc = AggDone /\ ensemble.available) =>
        /\ InUnitRange(ensemble.consistency_score)
        /\ Len(predictions) = 1 => ensemble.consistency_score = One
        /\ Len(predictions) > 1 =>
              RLeq(ensemble.consistency_score, Rat(1, DistinctOutcomes))

C24_Witness ==
    /\ agg_pc = AggDone
    /\ ensemble.available
    /\ Len(predictions) = 2
    /\ DistinctOutcomes = 2
    /\ predictions[1].pred.score_prediction = [home |-> 2, away |-> 0]
    /\ predictions[2].pred.score_prediction = [home |-> 0, away |-> 2]
    /\ ensemble.consistency_score = Rat(1, 4)

(***************************************************************************)
(* Settlement of a completed match                                         *)
(***************************************************************************)
\* The stored predicted outcome is the one the final score gives.
CalledRight ==
    \/ prediction_row.outcome = "home_win" /\ match.score_data.home > match.score_data.away
    \/ prediction_row.outcome = "away_win" /\ match.score_data.home < match.score_data.away
    \/ prediction_row.outcome = "draw" /\ match.score_data.home = match.score_data.away

\* C25: for a completed match (with its final score), the settlement status
\* is correct if and only if the stored predicted outcome equals the outcome
\* derived from the final score (home > away gives home_win, home < away
\* gives away_win, equal gives draw); profit_loss is potential_return minus
\* stake when correct and minus stake otherwise; points_earned is 10 when
\* correct and 0 otherwise.
C25_SettlementOfCompletedMatch ==
    (svc_calls >= 1 /\ match.status = "completed" /\ match.score_data # NoScore) =>
        /\ ~settlement.raised
        /\ settlement.status = (IF CalledRight THEN "correct" ELSE "incorrect")
        /\ settlement.profit_loss =
              (IF CalledRight
               THEN prediction_row.potential_return - prediction_row.stake_amount
               ELSE -prediction_row.stake_amount)
        /\ settlement.points_earned = (IF CalledRight THEN 10 ELSE 0)

\* A staked draw call settled against a drawn match.
C25_Witness ==
    /\ svc_calls >= 1
    /\ match.status = "completed"
    /\ match.score_data = [home |-> 1, away |-> 1]
    /\ prediction_row.outcome = "draw"
    /\ prediction_row.stake_amount = StakeUnit
    /\ settlement.status = "correct"
    /\ settlement.profit_loss = (ReturnFactor - 1) * StakeUnit
    /\ settlement.points_earned = 10

(***************************************************************************)
(* Edges against the normalised implied probabilities                      *)
(***************************************************************************)
\* 1/odds of an outcome, divided by the sum of 1/odds over the three outcomes
NormalisedImplied(k) ==
    RDiv(RDiv(One, val_odds[k]),
         RAdd(RDiv(One, val_odds["HOME_WIN"]),
              RAdd(RDiv(One, val_odds["DRAW"]), RDiv(One, val_odds["AWAY_WIN"]))))

\* model probability minus normalised implied probability
EdgeOf(k) == RSub(val_prediction[k], NormalisedImplied(k))

ModelProbabilitiesSumToOne ==
    RAdd(val_prediction["HOME_WIN"],
         RAdd(val_prediction["DRAW"], val_prediction["AWAY_WIN"])) = One

\* C26: in evaluate_prediction_quality, for odds greater than 1 on all three
\* outcomes, the normalised implied probabilities (1/odds divided by the sum
\* of 1/odds) sum to 1, each edge is the model probability minus the
\* normalised implied probability, and best_bet is an outcome whose edge is
\* maximal among the three; consequently the reported edge is non-negative
\* whenever the model probabilities sum to 1.
C26_BestBetHasMaximalEdge ==
    (val_pc = "done" /\ AllOddsAboveOne) =>
        /\ ~value_analysis.raised
        /\ RAdd(NormalisedImplied("HOME_WIN"),
                RAdd(NormalisedImplied("DRAW"), NormalisedImplied("AWAY_WIN"))) = One
        /\ value_analysis.best_bet \in OutcomeKeys
        /\ value_analysis.edge = EdgeOf(value_analysis.best_bet)
        /\ \A k \in OutcomeKeys : RLeq(EdgeOf(k), value_analysis.edge)
        /\ ModelProbabilitiesSumToOne => RLeq(Zero, value_analysis.edge)

\* Odds with a bookmaker margin (1/2 + 2/5 + 2/5 > 1) and a model that puts
\* three quarters on the home side.
C26_Witness ==
    /\ val_pc = "done"
    /\ val_odds = [HOME_WIN |-> Rat(2, 1), DRAW |-> Rat(5, 2), AWAY_WIN |-> Rat(5, 2)]
    /\ ModelProbabilitiesSumToOne
    /\ val_prediction["HOME_WIN"] = Rat(3, 4)
    /\ value_analysis.best_bet = "HOME_WIN"
    /\ value_analysis.edge = Rat(19, 52)

(***************************************************************************)
(* Aggregator and derived-market runs in one interpreter, one after the    *)
(* other, on the same forecast list, base weights and match context        *)
(***************************************************************************)
\* Match contexts of the repeated runs
FrameContexts ==
    {MatchData(PromptKeys, h, a, FALSE, "medium", "balanced", One) :
        h \in Teams, a \in Teams}

InitFrame ==
    /\ IdleValue
    /\ IdleSettle
    /\ IdleAgg
    /\ IdleCycle
    /\ IdleSchema
    /\ IdleFurther
    /\ hash_order = <<"form", "rating", "head_to_head">>
    /\ rerun_input \in [predictions : RerunLists,
                         base_weights : {ConfiguredWeights, EqualWeights}]
    /\ rerun_results = <<>>
    /\ match_data \in FrameContexts
    /\ base_prediction = [score_prediction |-> [home |-> 1, away |-> 0],
                          confidence |-> Rat(8, 10)]
    /\ market_call = ""
    /\ market_result = <<>>

\* One more run of _get_additional_predictions, which only reads match_data
\* and base_prediction.
derive_markets_again ==
    /\ market_call' = "_get_additional_predictions"
    /\ market_result' = _get_additional_predictions(match_data, base_prediction)
    /\ UNCHANGED <<match_data, base_prediction>>
    /\ UNCHANGED <<valueVars, settleVars, aggVars, cycleVars, schemaVars, rerunVars, furtherVars>>

NextFrame == aggregate_again \/ derive_markets_again

SpecFrame == InitFrame /\ [][NextFrame]_vars

AI_CONFIDENCE_THRESHOLD == Rat(7, 10)
STATISTICAL_MODEL_WEIGHT == Rat(7, 10)
AI_MODEL_WEIGHT == Rat(3, 10)

\* Keys of the dict MatchPredictionModel.predict returns
PREDICT_KEYS ==
    {"home_win_probability", "draw_probability", "away_win_probability", "confidence",
     "feature_importance", "prediction"}

\* BaseSportService.__init__: self.db = db, then self.model =
\* self._get_prediction_model(), which reads self.prediction_model
\* (SoccerService._get_prediction_model).
BaseSportService_init(attrs) ==
    LET with_db == attrs \cup {"db"}
    IN  IF "prediction_model" \in with_db
        THEN [raised |-> FALSE, error |-> "", attrs |-> with_db \cup {"model"}]
        ELSE [raised |-> TRUE, error |-> "AttributeError", attrs |-> with_db]

\* SoccerService.__init__: super().__init__(db) comes first, prediction_model
\* and ai_prediction_service are assigned after it.  No logger is assigned.
SoccerService_init ==
    LET base == BaseSportService_init({})
    IN  IF base.raised THEN base
        ELSE [raised |-> FALSE, error |-> "",
              attrs |-> base.attrs \cup {"prediction_model", "ai_prediction_service"}]

PredictionRaised(err) ==
    [called |-> TRUE, raised |-> TRUE, error |-> err, combined |-> FALSE,
     confidence |-> Zero]
PredictionReturned(combined, confidence) ==
    [called |-> TRUE, raised |-> FALSE, error |-> "", combined |-> combined,
     confidence |-> confidence]

\* SoccerService._combine_predictions reads statistical_pred["score_prediction"]
\* and ["predicted_outcome"].
_combine_predictions(statistical_pred, ai_pred) ==
    IF ~({"score_prediction", "predicted_outcome"} \subseteq statistical_pred.keys)
    THEN PredictionRaised("KeyError")
    ELSE PredictionReturned(TRUE,
            RAdd(RMul(statistical_pred.confidence, STATISTICAL_MODEL_WEIGHT),
                 RMul(ai_pred.confidence, AI_MODEL_WEIGHT)))

\* SoccerService.get_match_prediction
get_match_prediction(self, input) ==
    LET statistical_prediction ==
            PredictionReturned(FALSE, input.statistical_prediction.confidence)
        \* except Exception as e: self.logger.error(...)
        handled == IF "logger" \in self.attrs THEN statistical_prediction
                   ELSE PredictionRaised("AttributeError")
    IN  IF ~input.AI_PREDICTION_ENABLED THEN statistical_prediction
        ELSE IF input.ai_prediction.kind = "raises" THEN handled
        ELSE IF input.ai_prediction.kind = "none" THEN statistical_prediction
        ELSE IF RLeq(AI_CONFIDENCE_THRESHOLD, input.ai_prediction.confidence)
        THEN LET combined == _combine_predictions(input.statistical_prediction,
                                                  input.ai_prediction)
             IN  IF combined.raised THEN handled ELSE combined
        ELSE statistical_prediction

\* What the AI ensemble call gives: None, an exception, or a forecast
AiOutcomes ==
    {[kind |-> k, confidence |-> Zero] : k \in {"none", "raises"}}
    \cup {[kind |-> "forecast", confidence |-> c] :
            c \in {Rat(5, 10), Rat(7, 10), Rat(9, 10)}}

\* Statistical predictions: the dict of MatchPredictionModel.predict, and one
\* that also holds a predicted outcome and score
StatisticalPredictions ==
    {[keys |-> ks, confidence |-> c] :
        ks \in {PREDICT_KEYS, PREDICT_KEYS \cup {"predicted_outcome", "score_prediction"}},
        c \in {Rat(4, 10), Rat(6, 10), Rat(9, 10)}}

NoPrediction ==
    [called |-> FALSE, raised |-> FALSE, error |-> "", combined |-> FALSE,
     confidence |-> Zero]

InitPredict ==
    /\ IdleCore
    /\ IdleForm
    /\ IdleStore
    /\ IdleLoop
    /\ predict_input \in [AI_PREDICTION_ENABLED : BOOLEAN,
                           ai_prediction : AiOutcomes,
                           statistical_prediction : StatisticalPredictions]
    /\ predict_result = NoPrediction

\* A request for the prediction of a match: the service is obtained from
\* SportServiceFactory.get_service, which constructs it, and asked.
request_match_prediction ==
    /\ ~predict_result.called
    /\ predict_result' =
          LET self == SoccerService_init
          IN  IF self.raised THEN PredictionRaised(self.error)
              ELSE get_match_prediction(self, predict_input)
    /\ UNCHANGED predict_input
    /\ UNCHANGED <<coreVars, formVars, storeVars, loopVars>>

NextPredict == request_match_prediction

SpecPredict == InitPredict /\ [][NextPredict]_vars

\* The AI ensemble is available with a confidence at or above the threshold.
AiUsable ==
    /\ predict_input.AI_PREDICTION_ENABLED
    /\ predict_input.ai_prediction.kind = "forecast"
    /\ RLeq(Rat(7, 10), predict_input.ai_prediction.confidence)

MaxTime == 3   \* the clock runs over 0..MaxTime

UserIds == {1, 2}

\* Match.start_time of the matches of the matches table
StartTime == [m1 |-> 1, m2 |-> 2]
MatchIds == DOMAIN StartTime

\* match ids a request may name: those of the table and an unknown one
RequestedMatchIds == MatchIds \cup {"m0"}

\* Rows the table may hold when the server starts, at most one per user and
\* match.
SeedRows ==
    {[id |-> 1, user_id |-> 1, match_id |-> "m1", updated |-> FALSE, updated_at |-> 0],
     [id |-> 2, user_id |-> 1, match_id |-> "m2", updated |-> FALSE, updated_at |-> 0],
     [id |-> 3, user_id |-> 2, match_id |-> "m1", updated |-> FALSE, updated_at |-> 0],
     [id |-> 4, user_id |-> 2, match_id |-> "m2", updated |-> FALSE, updated_at |-> 0]}

\* Fields of PredictionCreate (prediction_in.dict()) and the attributes of the
\* Prediction model that a keyword of its constructor may name
PREDICTION_CREATE_FIELDS ==
    {"match_id", "prediction_type", "predicted_outcome", "confidence_score",
     "stake_amount", "odds"}
PREDICTION_MODEL_ATTRIBUTES ==
    {"id", "created_at", "updated_at", "user_id", "match_id", "sport_id",
     "prediction_data", "confidence_score", "stake_amount", "potential_return",
     "odds_data", "status", "analysis_factors", "model_version", "features_used",
     "points_earned", "profit_loss", "performance_metrics", "prediction_time",
     "settlement_time", "notes", "tags", "metadata", "user", "match", "sport"}

\* match.start_time <= datetime.utcnow()
has_started_never(match_id, t) == FALSE
has_started(match_id, t) == StartTime[match_id] <= t

ApiResponse(op, user, target, status_code, detail) ==
    [op |-> op, user_id |-> user, target |-> target, status_code |-> status_code,
     detail |-> detail, at |-> now]

\* create_prediction: the response, and the table after it.  The constructor
\* PredictionModel(**prediction_in.dict(), ...) rejects a keyword that is no
\* attribute of the model with TypeError, before db.add.
create_prediction_outcome(user, match_id) ==
    IF match_id \notin MatchIds
    THEN [response |-> ApiResponse("create", user, match_id, 404, "Match not found"),
          store |-> store]
    ELSE IF has_started(match_id, now)
    THEN [response |-> ApiResponse("create", user, match_id, 400, "already started"),
          store |-> store]
    ELSE IF \E r \in store : r.match_id = match_id /\ r.user_id = user
    THEN [response |-> ApiResponse("create", user, match_id, 400, "already have a prediction"),
          store |-> store]
    ELSE IF ~(PREDICTION_CREATE_FIELDS \subseteq PREDICTION_MODEL_ATTRIBUTES)
    THEN [response |-> ApiResponse("create", user, match_id, 500, "TypeError"),
          store |-> store]
    ELSE [response |-> ApiResponse("create", user, match_id, 200, ""),
          store |-> store \cup
              {[id |-> Cardinality(store) + Cardinality(SeedRows) + 1, user_id |-> user,
                match_id |-> match_id, updated |-> TRUE, updated_at |-> now]}]

\* update_prediction
update_prediction_outcome(user, prediction_id) ==
    IF ~\E r \in store : r.id = prediction_id /\ r.user_id = user
    THEN [response |-> ApiResponse("update", user, prediction_id, 404, "Prediction not found"),
          store |-> store]
    ELSE
      LET prediction == CHOOSE r \in store : r.id = prediction_id /\ r.user_id = user
      IN  IF has_started(prediction.match_id, now)
          THEN [response |-> ApiResponse("update", user, prediction_id, 400, "already started"),
                store |-> store]
          ELSE [response |-> ApiResponse("update", user, prediction_id, 200, ""),
                store |-> (store \ {prediction}) \cup
                    {[prediction EXCEPT !.updated = TRUE, !.updated_at = now]}]

InitStore ==
    /\ IdleCore
    /\ IdleForm
    /\ IdlePredict
    /\ IdleLoop
    /\ store \in SUBSET SeedRows
    /\ now = 0
    /\ api_response = <<>>

create_prediction ==
    /\ \E user \in UserIds, match_id \in RequestedMatchIds :
         LET outcome == create_prediction_outcome(user, match_id)
         IN  /\ store' = outcome.store
             /\ api_response' = outcome.response
    /\ UNCHANGED now
    /\ UNCHANGED <<coreVars, formVars, predictVars, loopVars>>

update_prediction ==
    /\ \E user \in UserIds, prediction_id \in 1..Cardinality(SeedRows) :
         LET outcome == update_prediction_outcome(user, prediction_id)
         IN  /\ store' = outcome.store
             /\ api_response' = outcome.response
    /\ UNCHANGED now
    /\ UNCHANGED <<coreVars, formVars, predictVars, loopVars>>

\* Time passes between two requests.
clock_tick ==
    /\ now < MaxTime
    /\ now' = now + 1
    /\ UNCHANGED <<store, api_response>>
    /\ UNCHANGED <<coreVars, formVars, predictVars, loopVars>>

NextStore == create_prediction \/ update_prediction \/ clock_tick

SpecStore == InitStore /\ [][NextStore]_vars

RefreshLoops == {"live_match", "upcoming_match", "odds"}

\* match ids of the matches table, in the order a query returns them
RefreshMatches == <<"m1", "m2">>

\* the results a query may give: the matches that pass its filter
QueryResults ==
    {<<>>, <<RefreshMatches[1]>>, <<RefreshMatches[2]>>, RefreshMatches}

\* What processing one match may come to.  "raised" is any Exception out of
\* the body of the inner try; update_upcoming_matches has the branch that
\* starts a match and continues.
MatchOutcomes(loop) ==
    IF loop = "upcoming_match" THEN {"updated", "started", "raised"}
    ELSE {"updated", "raised"}

SeqRange(q) == {q[i] : i \in DOMAIN q}

\* A loop at the top of while True
AtQuery ==
    [pc |-> "query", selected |-> {}, pending |-> <<>>, processed |-> {},
     failed |-> {}, query_raised |-> FALSE]

\* The matches still to be processed after processing one of them raised: the
\* inner except logs the error and the for statement goes on.
after_match_error_without_handler(rest) == <<>>
after_match_error(rest) == rest

\* the query at the head of a cycle
query_matches_of(loop) ==
    /\ refresh[loop].pc = "query"
    /\ \/ \E result \in QueryResults :
             refresh' = [refresh EXCEPT ![loop] =
                 [@ EXCEPT !.pc = IF result = <<>> THEN "sleep" ELSE "matches",
                           !.selected = SeqRange(result),
                           !.pending = result]]
       \/ \* the query raised: the outer except logs it
          refresh' = [refresh EXCEPT ![loop] =
                 [@ EXCEPT !.pc = "sleep", !.query_raised = TRUE]]

\* one pass of the body of the for statement
process_match_of(loop) ==
    /\ refresh[loop].pc = "matches"
    /\ refresh[loop].pending # <<>>
    /\ \E outcome \in MatchOutcomes(loop) :
         LET this_match == Head(refresh[loop].pending)
             rest == IF outcome = "raised"
                     THEN after_match_error(Tail(refresh[loop].pending))
                     ELSE Tail(refresh[loop].pending)
         IN  refresh' = [refresh EXCEPT ![loop] =
                 [@ EXCEPT !.pc = IF rest = <<>> THEN "sleep" ELSE "matches",
                           !.pending = rest,
                           !.processed = IF outcome = "raised" THEN @ ELSE @ \cup {this_match},
                           !.failed = IF outcome = "raised" THEN @ \cup {this_match} ELSE @]]

\* await asyncio.sleep(...) returns and the while statement starts over
sleep_over_of(loop) ==
    /\ refresh[loop].pc = "sleep"
    /\ refresh' = [refresh EXCEPT ![loop] = AtQuery]

run_loop(loop) == query_matches_of(loop) \/ process_match_of(loop) \/ sleep_over_of(loop)

InitLoop ==
    /\ IdleCore
    /\ IdleForm
    /\ IdlePredict
    /\ IdleStore
    /\ refresh = [loop \in RefreshLoops |-> AtQuery]

query_matches ==
    /\ \E loop \in RefreshLoops : query_matches_of(loop)
    /\ UNCHANGED <<coreVars, formVars, predictVars, storeVars>>

process_match ==
    /\ \E loop \in RefreshLoops : process_match_of(loop)
    /\ UNCHANGED <<coreVars, formVars, predictVars, storeVars>>

sleep_over ==
    /\ \E loop \in RefreshLoops : sleep_over_of(loop)
    /\ UNCHANGED <<coreVars, formVars, predictVars, storeVars>>

NextLoop == query_matches \/ process_match \/ sleep_over

SpecLoop == InitLoop /\ [][NextLoop]_vars

\* The event loop runs every coroutine that is ready: the external calls time
\* out and the sleep ends after its interval, so a loop that can take a step
\* takes it.
FairSpecLoop ==
    SpecLoop /\ \A loop \in RefreshLoops : WF_vars(run_loop(loop) /\ NextLoop)

\* every match the query of the cycle selected has been processed or has had
\* its error logged, or is still to come
CycleCoversSelection ==
    \A loop \in RefreshLoops :
        ~refresh[loop].query_raised =>
            refresh[loop].processed \cup refresh[loop].failed
                \cup SeqRange(refresh[loop].pending) = refresh[loop].selected

====
